---- MODULE Spec2Model ----
(***************************************************************************)
(* Verification model of the multi-strategy extraction core of the         *)
(* clinical-study extraction backend:                                      *)
(*   - UnifiedExtractor.extract_tables / extract_figures                   *)
(*     (backend/app/api/unified_extraction.py), with the backend wrappers  *)
(*     it calls (pymupdf / camelot / tabula tables, improved_render        *)
(*     figures);                                                           *)
(*   - the format normalizer of OlmOCRExtractor (parse_html_tables,        *)
(*     parse_tables_from_markdown) and the grid renderer                   *)
(*     PyMuPDFTableExtractor._convert_to_markdown.                         *)
(* Formatted strings are modelled as records or tuples of their parts.     *)
(***************************************************************************)
EXTENDS Integers, Sequences, FiniteSets, TLC

\* ------------------------------------------------------------------------
\* Bounds of the model
\* ------------------------------------------------------------------------

\* tables found by page.find_tables() on the page
MaxFound == 2
\* rows / columns of one grid returned by table.extract()
MaxGridRows == 2
MaxGridCols == 2
\* candidates returned by the camelot / tabula wrappers
MaxCands == 2
\* "Figure" hits and image clusters of one page
MaxHits == 1
MaxClusters == 1

\* ------------------------------------------------------------------------
\* Helpers
\* ------------------------------------------------------------------------

\* all sequences over S of length 0..n
SeqUpTo(S, n) == UNION {[1..k -> S] : k \in 0..n}

\* [x] * n
Repeat(x, n) == [k \in 1..n |-> x]

RECURSIVE Flatten(_)
\* the concatenation of a sequence of sequences
Flatten(ss) == IF ss = <<>> THEN <<>> ELSE Head(ss) \o Flatten(Tail(ss))

\* max(a, b)
Max2(a, b) == IF a >= b THEN a ELSE b

\* Python's None
None == "None"

\* ------------------------------------------------------------------------
\* PyMuPDFTableExtractor
\* ------------------------------------------------------------------------

\* the header line / a data line of _convert_to_markdown: a row of the
\* rendering is the sequence of its cell texts, "| " + " | ".join(cells) + " |"
RenderCell(cell) == IF cell = None \/ cell = "" THEN "" ELSE cell

RenderRow(row) == [k \in 1..Len(row) |-> RenderCell(row[k])]

\* row + [""] * (len(header) - len(row)); a negative count gives []
PadRow(row, width) ==
    IF width - Len(row) > 0 THEN row \o Repeat("", width - Len(row)) ELSE row

\* _convert_to_markdown: header, separator, then every further row padded to
\* the header's length.  kind tells the separator line from the cell rows.
_convert_to_markdown(table_data) ==
    IF table_data = <<>> THEN <<>>
    ELSE LET header == table_data[1]
         IN  << [kind |-> "row", cells |-> RenderRow(header)],
                [kind |-> "sep", cells |-> Repeat("---", Len(header))] >>
             \o [k \in 1..(Len(table_data) - 1) |->
                    [kind |-> "row",
                     cells |-> RenderRow(PadRow(table_data[k + 1], Len(header)))]]

\* the candidate built for one table of table_finder.tables
PyMuPDFCandidate(idx, table_data) ==
    [table_index |-> idx,
     markdown |-> _convert_to_markdown(table_data),
     has_dims |-> TRUE,
     rows |-> Len(table_data),
     cols |-> IF table_data # <<>> THEN Len(table_data[1]) ELSE 0,
     extraction_method |-> "pymupdf_find_tables"]

\* _extract_tables_from_text_blocks: one candidate per table-like text block,
\* without rows / cols
TextBlockCandidate(idx, text_rows) ==
    [table_index |-> idx,
     markdown |-> [k \in 1..Len(text_rows) |->
                       [kind |-> "row", cells |-> text_rows[k]]],
     has_dims |-> FALSE,
     rows |-> 0,
     cols |-> 0,
     extraction_method |-> "pymupdf_text_blocks"]

\* PyMuPDFTableExtractor.extract_tables_from_page on a page whose
\* find_tables() gives the grids `found` and which has `blocks` table-like
\* text blocks; page_error is an exception inside the method (caught there)
PyMuPDF_extract_tables_from_page(page) ==
    IF page.page_error THEN <<>>
    ELSE IF page.found # <<>>
         THEN [k \in 1..Len(page.found) |-> PyMuPDFCandidate(k - 1, page.found[k])]
         ELSE [k \in 1..page.blocks |-> TextBlockCandidate(k - 1, <<>>)]

\* the outcome of a backend function: it raises, or returns a list
Raise(msg) == [type |-> "raise", msg |-> msg, value |-> <<>>]

Return(value) == [type |-> "return", msg |-> "", value |-> value]

\* extract_tables_pymupdf: fitz.open in the constructor may raise, everything
\* after it is caught inside extract_tables_from_page
extract_tables_pymupdf(input) ==
    IF ~input.open_ok THEN Raise("cannot open")
    ELSE Return(PyMuPDF_extract_tables_from_page(input))

\* ------------------------------------------------------------------------
\* CamelotTableExtractor, TabulaTableExtractor
\* ------------------------------------------------------------------------

\* what camelot.read_pdf / tabula.read_pdf gives is a record: error (it
\* raised) or dfs, a list of data frames, each known by its shape
CamelotCandidate(idx, df, method) ==
    [table_index |-> idx,
     markdown |-> <<>>,
     has_dims |-> TRUE,
     rows |-> df.rows,
     cols |-> df.cols,
     extraction_method |-> method]

\* CamelotTableExtractor.extract_tables_from_page: lattice first; stream when
\* lattice finds nothing or raises; [] when stream finds nothing or raises
Camelot_extract_tables_from_page(input) ==
    LET stream == IF input.stream.error THEN <<>>
                  ELSE [k \in 1..Len(input.stream.dfs) |->
                           CamelotCandidate(k - 1, input.stream.dfs[k], "camelot_stream")]
    IN  IF input.lattice.error THEN stream
        ELSE IF input.lattice.dfs = <<>> THEN stream
        ELSE [k \in 1..Len(input.lattice.dfs) |->
                 CamelotCandidate(k - 1, input.lattice.dfs[k], "camelot_lattice")]

\* CamelotTableExtractor.extract_all_tables: one try block around both reads
Camelot_extract_all_tables(input) ==
    IF input.lattice.error THEN <<>>
    ELSE IF input.lattice.dfs = <<>>
         THEN IF input.stream.error THEN <<>>
              ELSE [k \in 1..Len(input.stream.dfs) |->
                       CamelotCandidate(k - 1, input.stream.dfs[k], "camelot")]
         ELSE [k \in 1..Len(input.lattice.dfs) |->
                  CamelotCandidate(k - 1, input.lattice.dfs[k], "camelot")]

\* page_given: page_num is not None
extract_tables_camelot(input) ==
    IF input.page_given
    THEN Return(Camelot_extract_tables_from_page(input))
    ELSE Return(Camelot_extract_all_tables(input))

\* df.empty
DfEmpty(df) == df.rows = 0 \/ df.cols = 0

RECURSIVE TabulaCandidates(_, _)
\* the loop of TabulaTableExtractor.extract_tables_from_page / extract_all_tables:
\* empty data frames are skipped, table_index is the frame's position
TabulaCandidates(dfs, idx) ==
    IF dfs = <<>> THEN <<>>
    ELSE IF DfEmpty(Head(dfs)) THEN TabulaCandidates(Tail(dfs), idx + 1)
    ELSE <<CamelotCandidate(idx, Head(dfs), "tabula")>>
         \o TabulaCandidates(Tail(dfs), idx + 1)

extract_tables_tabula(input) ==
    IF input.read.error THEN Return(<<>>)
    ELSE Return(TabulaCandidates(input.read.dfs, 0))

\* ------------------------------------------------------------------------
\* ImprovedFigureExtractor
\* ------------------------------------------------------------------------
\* A text is the sequence of its lexical pieces: the word "Figure", the same
\* word in lower case "figure", "ws" a whitespace character, "d" a digit,
\* "U" an upper-case letter, "." a period, "w" any other run of characters.

RECURSIVE SkipWhile(_, _, _)
\* the first position >= i of s that does not hold tok
SkipWhile(s, i, tok) ==
    IF i <= Len(s) /\ s[i] = tok THEN SkipWhile(s, i + 1, tok) ELSE i

RECURSIVE LStrip(_)
LStrip(s) == IF s # <<>> /\ Head(s) = "ws" THEN LStrip(Tail(s)) ELSE s

RECURSIVE RStrip(_)
RStrip(s) ==
    IF s # <<>> /\ s[Len(s)] = "ws" THEN RStrip(SubSeq(s, 1, Len(s) - 1)) ELSE s

\* str.strip()
Strip(s) == RStrip(LStrip(s))

\* a pattern that asks for the word only
CaptionMatch_WordOnly(s) == Len(s) >= 1 /\ s[1] = "Figure"

\* re.match(r'Figure\s+\d+[A-Z]?\.', s)
CaptionMatch(s) ==
    LET i2 == SkipWhile(s, 2, "ws")
        i3 == SkipWhile(s, i2, "d")
        i4 == IF i3 <= Len(s) /\ s[i3] = "U" THEN i3 + 1 ELSE i3
    IN  /\ Len(s) >= 1
        /\ s[1] = "Figure"
        /\ i2 > 2
        /\ i3 > i2
        /\ i4 <= Len(s)
        /\ s[i4] = "."

RECURSIVE CaptionRegions(_)
\* _detect_figure_regions_by_caption: one region per hit of
\* page.search_for("Figure") whose text box matches the caption pattern
CaptionRegions(hits) ==
    IF hits = <<>> THEN <<>>
    ELSE (IF CaptionMatch(Strip(Head(hits).text))
          THEN << [caption |-> Strip(Head(hits).text),
                   render_ok |-> Head(hits).render_ok] >>
          ELSE <<>>)
         \o CaptionRegions(Tail(hits))

\* the margin added on every side of a cluster's bounding box
ClusterPad == 10

\* the size a padded cluster box must exceed
MinFigureSize == 100

\* fitz.Rect(x0 - 10, y0 - 10, x1 + 10, y1 + 10) around a cluster's box
PaddedBox(c) ==
    [x0 |-> c.x0 - ClusterPad, y0 |-> c.y0 - ClusterPad,
     x1 |-> c.x1 + ClusterPad, y1 |-> c.y1 + ClusterPad]

\* `if bbox.width > 100 and bbox.height > 100`
ReasonablySized(bbox) ==
    bbox.x1 - bbox.x0 > MinFigureSize /\ bbox.y1 - bbox.y0 > MinFigureSize

\* page.get_textbox(caption_rect).strip(), then `caption if caption else None`
ClusterCaption(below) ==
    IF Strip(below) # <<>> THEN Strip(below) ELSE <<None>>

RECURSIVE ClusterRegions(_)
\* _detect_figure_regions_by_image_clusters, from the clusters of the page's
\* image rectangles: a cluster is known by its enclosing box (x0, y0, x1, y1)
\* and by the text below it
ClusterRegions(clusters) ==
    IF clusters = <<>> THEN <<>>
    ELSE LET c == Head(clusters)
             bbox == PaddedBox(c)
         IN  (IF ReasonablySized(bbox)
              THEN << [bbox |-> bbox,
                       caption |-> ClusterCaption(c.below),
                       render_ok |-> c.render_ok] >>
              ELSE <<>>)
             \o ClusterRegions(Tail(clusters))

RECURSIVE RenderFigures(_, _, _)
\* the loop over regions of extract_figures_from_page: a region whose
\* rendering fails (_render_page_region gives None) adds no figure
RenderFigures(regions, idx, method) ==
    IF regions = <<>> THEN <<>>
    ELSE (IF Head(regions).render_ok
          THEN << [figure_index |-> idx,
                   caption |-> Head(regions).caption,
                   extraction_method |-> method] >>
          ELSE <<>>)
         \o RenderFigures(Tail(regions), idx + 1, method)

\* variant of FigureStrategies: the cluster strategy is run when the caption
\* strategy found no region, whatever became of the regions it found
FigureStrategies_NoRegions(page) ==
    LET figure_regions == CaptionRegions(page.hits)
        figures == RenderFigures(figure_regions, 0, "render_by_caption")
        cluster_regions == ClusterRegions(page.clusters)
    IN  IF figure_regions # <<>>
        THEN [figure_regions |-> figure_regions, cluster_run |-> FALSE,
              cluster_regions |-> <<>>, figures |-> figures]
        ELSE [figure_regions |-> figure_regions, cluster_run |-> TRUE,
              cluster_regions |-> cluster_regions,
              figures |-> RenderFigures(cluster_regions, 0, "render_by_cluster")]

\* lines 39-82 of extract_figures_from_page: the caption strategy, then the
\* cluster strategy `if not figures`; with the figures, the regions each
\* strategy detected and whether the cluster strategy was run
FigureStrategies(page) ==
    LET figure_regions == CaptionRegions(page.hits)
        figures == RenderFigures(figure_regions, 0, "render_by_caption")
        cluster_regions == ClusterRegions(page.clusters)
    IN  IF figures # <<>>
        THEN [figure_regions |-> figure_regions, cluster_run |-> FALSE,
              cluster_regions |-> <<>>, figures |-> figures]
        ELSE [figure_regions |-> figure_regions, cluster_run |-> TRUE,
              cluster_regions |-> cluster_regions,
              figures |-> RenderFigures(cluster_regions, 0, "render_by_cluster")]

\* ImprovedFigureExtractor.extract_figures_from_page: the figures of the two
\* strategies, none when reading the page raised
Improved_extract_figures_from_page(page) ==
    IF page.page_error THEN <<>> ELSE FigureStrategies(page).figures

\* extract_complete_figures: fitz.open in the constructor may raise
extract_complete_figures(input) ==
    IF ~input.open_ok THEN Raise("cannot open")
    ELSE Return(Improved_extract_figures_from_page(input))

\* ------------------------------------------------------------------------
\* UnifiedExtractor
\* ------------------------------------------------------------------------

\* priority order of the table extraction methods
TABLE_METHODS == <<"pymupdf", "camelot", "tabula">>

\* priority order of the figure extraction methods
FIGURE_METHODS == <<"improved_render">>

\* the list extract_tables (kind "tables") / extract_figures ("figures") reads
Registry(kind) == IF kind = "tables" THEN TABLE_METHODS ELSE FIGURE_METHODS

\* extract_func(pdf_path, page_num) of the registry entry `name`
BackendOutcome(name, input) ==
    CASE name = "pymupdf" -> extract_tables_pymupdf(input)
      [] name = "camelot" -> extract_tables_camelot(input)
      [] name = "tabula" -> extract_tables_tabula(input)
      [] name = "improved_render" -> extract_complete_figures(input)

\* `if method:` - None and the empty string both mean "no method requested"
Truthy(method) == method # None /\ method # ""

\* [(m, f) for m, f in METHODS if m == method]
SelectMethod(methods, method) == SelectSeq(methods, LAMBDA m : m = method)

\* the entries of results["errors"]
UnknownMethodError(method) == <<"Unknown method", method>>

FailedError(method_name, msg) == <<method_name, "failed", msg>>

AllFailedError(kind) == <<"All extraction methods failed or found no", kind>>

\* the results dictionary as first built; has_count tells whether the key
\* table_count / figure_count is present
InitialResults ==
    [success |-> FALSE,
     items |-> <<>>,
     method_used |-> None,
     methods_tried |-> <<>>,
     errors |-> <<>>,
     has_count |-> FALSE,
     count |-> 0]

\* placeholder while no backend call is in flight
NoInput == [none |-> TRUE]

\* one call of extract_tables / extract_figures at its entry.  pc is the
\* position in the method body; invoked and outcomes record, in order, the
\* backend functions called and how each call ended.
NewCall(kind, method, page_given) ==
    [kind |-> kind,
     method |-> method,
     page_given |-> page_given,
     pc |-> "select",
     methods_to_try |-> <<>>,
     i |-> 1,
     results |-> InitialResults,
     inflight |-> None,
     input |-> NoInput,
     invoked |-> <<>>,
     outcomes |-> <<>>]

\* variant of SelectStep: an unknown name falls back to the whole list
SelectStep_FallbackAll(c) ==
    IF Truthy(c.method) /\ SelectMethod(Registry(c.kind), c.method) # <<>>
    THEN [c EXCEPT !.methods_to_try = SelectMethod(Registry(c.kind), c.method),
                   !.pc = "loop"]
    ELSE [c EXCEPT !.methods_to_try = Registry(c.kind), !.pc = "loop"]

\* lines 71-78 / 133-140: choose the list to try
SelectStep(c) ==
    IF Truthy(c.method)
    THEN LET methods_to_try == SelectMethod(Registry(c.kind), c.method)
         IN  IF methods_to_try = <<>>
             THEN [c EXCEPT !.results.errors =
                                Append(@, UnknownMethodError(c.method)),
                            !.pc = "returned"]
             ELSE [c EXCEPT !.methods_to_try = methods_to_try, !.pc = "loop"]
    ELSE [c EXCEPT !.methods_to_try = Registry(c.kind), !.pc = "loop"]

\* lines 84-86: record the method as tried, then call its function
InvokeStep(c, input) ==
    LET method_name == c.methods_to_try[c.i]
    IN  [c EXCEPT !.results.methods_tried = Append(@, method_name),
                  !.inflight = method_name,
                  !.input = input,
                  !.invoked = Append(@, method_name),
                  !.pc = "inflight"]

\* the history entry of a finished backend call: what the function was
\* given and what it raised or returned
OutcomeEntry(c, out) ==
    [method |-> c.inflight, input |-> c.input,
     type |-> out.type, msg |-> out.msg, value |-> out.value]

\* variant of OnSuccess: method_used names the head of the list instead of
\* the method that succeeded
OnSuccess_FirstMethod(c, out) ==
    [c EXCEPT !.results.success = TRUE,
              !.results.items = out.value,
              !.results.method_used = c.methods_to_try[1],
              !.results.has_count = TRUE,
              !.results.count = Len(out.value),
              !.outcomes = Append(@, OutcomeEntry(c, out)),
              !.inflight = None,
              !.input = NoInput,
              !.pc = "returned"]

\* variant of OnSuccess: the early `return results` is missing, the loop
\* goes on
OnSuccess_Continue(c, out) ==
    [c EXCEPT !.results.success = TRUE,
              !.results.items = out.value,
              !.results.method_used = c.inflight,
              !.results.has_count = TRUE,
              !.results.count = Len(out.value),
              !.outcomes = Append(@, OutcomeEntry(c, out)),
              !.inflight = None,
              !.input = NoInput,
              !.i = @ + 1,
              !.pc = "loop"]

\* variant of OnSuccess: the count key is not written
OnSuccess_NoCount(c, out) ==
    [c EXCEPT !.results.success = TRUE,
              !.results.items = out.value,
              !.results.method_used = c.inflight,
              !.outcomes = Append(@, OutcomeEntry(c, out)),
              !.inflight = None,
              !.input = NoInput,
              !.pc = "returned"]

\* lines 88-95: the function returned a non-empty list
OnSuccess(c, out) ==
    [c EXCEPT !.results.success = TRUE,
              !.results.items = out.value,
              !.results.method_used = c.inflight,
              !.results.has_count = TRUE,
              !.results.count = Len(out.value),
              !.outcomes = Append(@, OutcomeEntry(c, out)),
              !.inflight = None,
              !.input = NoInput,
              !.pc = "returned"]

\* lines 96-97: nothing found, on to the next method
OnEmpty(c, out) ==
    [c EXCEPT !.outcomes = Append(@, OutcomeEntry(c, out)),
              !.inflight = None,
              !.input = NoInput,
              !.i = @ + 1,
              !.pc = "loop"]

\* variant of OnException: no except clause, the exception leaves the call
OnException_Propagate(c, out) ==
    [c EXCEPT !.outcomes = Append(@, OutcomeEntry(c, out)),
              !.inflight = None,
              !.input = NoInput,
              !.pc = "raised"]

\* variant of OnException: the same method is tried again
OnException_Retry(c, out) ==
    [c EXCEPT !.results.errors = Append(@, FailedError(c.inflight, out.msg)),
              !.outcomes = Append(@, OutcomeEntry(c, out)),
              !.inflight = None,
              !.input = NoInput,
              !.pc = "loop"]

\* lines 99-103: the function raised
OnException(c, out) ==
    [c EXCEPT !.results.errors = Append(@, FailedError(c.inflight, out.msg)),
              !.outcomes = Append(@, OutcomeEntry(c, out)),
              !.inflight = None,
              !.input = NoInput,
              !.i = @ + 1,
              !.pc = "loop"]

\* `if tables and len(tables) > 0`
NonEmpty(value) == value # <<>> /\ Len(value) > 0

\* lines 86-103: how the call in flight ends
FinishStep(c) ==
    LET out == BackendOutcome(c.inflight, c.input)
    IN  IF out.type = "raise" THEN OnException(c, out)
        ELSE IF NonEmpty(out.value) THEN OnSuccess(c, out)
        ELSE OnEmpty(c, out)

\* variant of ExhaustStep: the final error entry is not appended
ExhaustStep_Silent(c) == [c EXCEPT !.pc = "returned"]

\* lines 105-109: the loop ran out of methods
ExhaustStep(c) ==
    IF ~c.results.success
    THEN [c EXCEPT !.results.errors = Append(@, AllFailedError(c.kind)),
                   !.pc = "returned"]
    ELSE [c EXCEPT !.pc = "returned"]

\* ------------------------------------------------------------------------
\* What the backends are given: the documents and library results drawn
\* ------------------------------------------------------------------------

\* table-like text blocks of a page
MaxBlocks == 1

\* grids of table.extract(): r rows of c cells, and the grid without rows
UniformGrids ==
    {<<>>} \cup {Repeat(Repeat("v", c), r) : r \in 1..MaxGridRows, c \in 1..MaxGridCols}

PyMuPDFInputs ==
    {[open_ok |-> FALSE, page_error |-> FALSE, found |-> <<>>, blocks |-> 0],
     [open_ok |-> TRUE, page_error |-> TRUE, found |-> <<>>, blocks |-> 0]}
    \cup [open_ok : {TRUE}, page_error : {FALSE},
          found : SeqUpTo(UniformGrids, MaxFound) \ {<<>>}, blocks : {0}]
    \cup [open_ok : {TRUE}, page_error : {FALSE},
          found : {<<>>}, blocks : 0..MaxBlocks]

DfShapes == [rows : {0, 1}, cols : {1, 2}]

ReadError == [error |-> TRUE, dfs |-> <<>>]

Reads == {ReadError} \cup [error : {FALSE}, dfs : SeqUpTo(DfShapes, MaxCands)]

\* the stream read is only made when the lattice read found nothing or raised
CamelotInputs(page_given) ==
    {[page_given |-> page_given, lattice |-> l, stream |-> s] :
        l \in {r \in Reads : r.error \/ r.dfs = <<>>}, s \in Reads}
    \cup {[page_given |-> page_given, lattice |-> l, stream |-> ReadError] :
        l \in {r \in Reads : ~r.error /\ r.dfs # <<>>}}

TabulaInputs == [read : Reads]

CaptionTexts ==
    { <<"Figure", "ws", "d", "U", ".", "ws", "w">>,
      <<"Figure", "ws", "w">> }

Hits == [text : CaptionTexts, render_ok : BOOLEAN]

\* enclosing boxes 80 or 81 points wide and high
Clusters == [x0 : {20}, y0 : {20}, x1 : {100, 101}, y1 : {100, 101},
             below : {<<>>, <<"w">>}, render_ok : BOOLEAN]

FigureInputs ==
    {[open_ok |-> FALSE, page_error |-> FALSE, hits |-> <<>>, clusters |-> <<>>],
     [open_ok |-> TRUE, page_error |-> TRUE, hits |-> <<>>, clusters |-> <<>>]}
    \cup [open_ok : {TRUE}, page_error : {FALSE},
          hits : SeqUpTo(Hits, MaxHits), clusters : SeqUpTo(Clusters, MaxClusters)]

BackendInputs(name, page_given) ==
    CASE name = "pymupdf" -> PyMuPDFInputs
      [] name = "camelot" -> CamelotInputs(page_given)
      [] name = "tabula" -> TabulaInputs
      [] name = "improved_render" -> FigureInputs

\* the method argument: absent, empty, every registered name, an unknown one
MethodArgs == {None, "", "pymupdf", "camelot", "tabula", "improved_render", "olmocr"}

\* ------------------------------------------------------------------------
\* The state machine of one orchestrator call
\* ------------------------------------------------------------------------

\* call: the orchestrator call in progress; norm: one run of a parser of the
\* format normalizer (its input text and what it returned); run: one run of
\* the confidence scorer or of a step of the region detector; api: the
\* extract_via_api call in progress; pair: two orchestrator calls running
\* side by side, with the class attributes they share
VARIABLES call, norm, run, api, pair

vars == <<call, norm, run, api, pair>>

\* no two calls are running side by side
PairIdle == [calls |-> <<>>]

\* nothing has been given to the scorer or the detector
RunIdle == [fn |-> "none", input |-> [kind |-> "none"], output |-> [raised |-> FALSE]]

\* extract_via_api has not been called
ApiIdle == [pc |-> "idle"]

\* no parser has been given anything
NormIdle == [fn |-> "none", input |-> [kind |-> "none"],
             output |-> [raised |-> FALSE, tables |-> <<>>]]

Init ==
    /\ \E kind \in {"tables", "figures"}, method \in MethodArgs, page_given \in BOOLEAN :
          call = NewCall(kind, method, page_given)
    /\ norm = NormIdle
    /\ run = RunIdle
    /\ api = ApiIdle
    /\ pair = PairIdle

Select ==
    /\ call.pc = "select"
    /\ call' = SelectStep(call)
    /\ UNCHANGED <<norm, run, api, pair>>

Invoke ==
    /\ call.pc = "loop"
    /\ call.i <= Len(call.methods_to_try)
    /\ \E input \in BackendInputs(call.methods_to_try[call.i], call.page_given) :
          call' = InvokeStep(call, input)
    /\ UNCHANGED <<norm, run, api, pair>>

Finish ==
    /\ call.pc = "inflight"
    /\ call' = FinishStep(call)
    /\ UNCHANGED <<norm, run, api, pair>>

Exhaust ==
    /\ call.pc = "loop"
    /\ call.i > Len(call.methods_to_try)
    /\ call' = ExhaustStep(call)
    /\ UNCHANGED <<norm, run, api, pair>>

Next == Select \/ Invoke \/ Finish \/ Exhaust

Spec == Init /\ [][Next]_vars

\* ------------------------------------------------------------------------
\* Properties of the orchestrator
\* ------------------------------------------------------------------------

IsEmptyReturn(o) == o.type = "return" /\ o.value = <<>>

IsNonEmptyReturn(o) == o.type = "return" /\ o.value # <<>>

IsRaise(o) == o.type = "raise"

RECURSIVE FailedErrorsOf(_)
\* the "<method> failed: ..." entries the raised calls of a history account for
FailedErrorsOf(outcomes) ==
    IF outcomes = <<>> THEN <<>>
    ELSE (IF IsRaise(Head(outcomes))
          THEN <<FailedError(Head(outcomes).method, Head(outcomes).msg)>>
          ELSE <<>>)
         \o FailedErrorsOf(Tail(outcomes))

NoDuplicates(s) == \A a, b \in 1..Len(s) : a # b => s[a] # s[b]

\* C1: with no preferred method, when the backends before position k each
\* returned an empty list and backend k returned a non-empty one, the call
\* has returned success with method_used the k-th registered name, exactly
\* backend k's candidates, and methods_tried the first k registered names.
C1_Fallback ==
    \A k \in 1..Len(call.outcomes) :
        ( /\ ~Truthy(call.method)
          /\ \A j \in 1..(k - 1) : IsEmptyReturn(call.outcomes[j])
          /\ IsNonEmptyReturn(call.outcomes[k]) )
        => /\ call.pc = "returned"
           /\ call.results.success
           /\ call.results.method_used = Registry(call.kind)[k]
           /\ call.outcomes[k].method = Registry(call.kind)[k]
           /\ call.results.items = call.outcomes[k].value
           /\ call.results.methods_tried = SubSeq(Registry(call.kind), 1, k)

\* C1 witness: pymupdf returned nothing, camelot returned candidates
C1_Witness ==
    /\ ~Truthy(call.method)
    /\ Len(call.outcomes) = 2
    /\ IsEmptyReturn(call.outcomes[1])
    /\ IsNonEmptyReturn(call.outcomes[2])
    /\ call.results.method_used = "camelot"
    /\ call.results.methods_tried = <<"pymupdf", "camelot">>

\* C2: once a backend has returned a non-empty list, it is the last backend
\* called in this call: no later entry of the list is ever invoked or recorded
\* as tried; a non-empty first backend A leaves methods_tried = [A].
C2_ShortCircuit ==
    \A k \in 1..Len(call.outcomes) :
        IsNonEmptyReturn(call.outcomes[k])
        => /\ Len(call.invoked) = k
           /\ Len(call.outcomes) = k
           /\ call.invoked = SubSeq(call.methods_to_try, 1, k)
           /\ call.results.methods_tried = call.invoked
           /\ call.pc = "returned"

\* C2 witness: the first of three backends succeeded and the call returned
C2_Witness ==
    /\ call.pc = "returned"
    /\ Len(call.methods_to_try) = 3
    /\ IsNonEmptyReturn(call.outcomes[1])
    /\ call.results.methods_tried = <<"pymupdf">>
    /\ call.invoked = <<"pymupdf">>

\* C3: every backend call that raised left exactly one "<method> failed"
\* entry, in order, and nothing else is in errors before the call returns;
\* the method stays in methods_tried; the loop goes on to the next entry of
\* the list; the call itself never ends by raising: it is at a position of
\* the method body or has returned its results, after at most one call per
\* entry of the list.
C3_FailureIsolation ==
    /\ call.pc \in {"select", "loop", "inflight", "returned"}
    /\ Len(call.outcomes) <= Len(call.methods_to_try)
    /\ (call.pc # "returned" =>
           call.results.errors = FailedErrorsOf(call.outcomes))
    /\ (call.pc = "returned" =>
           \E final \in {<<>>, <<AllFailedError(call.kind)>>,
                         <<UnknownMethodError(call.method)>>} :
               call.results.errors = FailedErrorsOf(call.outcomes) \o final)
    /\ \A k \in 1..Len(call.outcomes) :
           /\ call.results.methods_tried[k] = call.outcomes[k].method
           /\ (IsRaise(call.outcomes[k]) /\ k < Len(call.methods_to_try))
              => \/ Len(call.invoked) > k
                 \/ (call.pc = "loop" /\ call.i = k + 1)

\* C3 witness: pymupdf raised, the next backend was called, the call returned
C3_Witness ==
    /\ call.pc = "returned"
    /\ Len(call.outcomes) >= 2
    /\ IsRaise(call.outcomes[1])
    /\ call.results.errors[1] = FailedError("pymupdf", "cannot open")
    /\ call.invoked[2] = "camelot"

\* C4: when every backend of the list raised or returned nothing, the call
\* returns success = false, no candidates, method_used = None, methods_tried
\* = the whole list (all registered backends of the kind when no method was
\* requested) and errors = the recorded failures followed by the final
\* "All extraction methods failed or found no ..." entry; a page without a
\* "Figure" hit and without images makes the figure backend return nothing.
C4_TotalExhaustion ==
    /\ ( /\ call.pc = "returned"
         /\ call.methods_to_try # <<>>
         /\ Len(call.outcomes) = Len(call.methods_to_try)
         /\ \A k \in 1..Len(call.outcomes) : ~IsNonEmptyReturn(call.outcomes[k]) )
       => /\ ~call.results.success
          /\ call.results.items = <<>>
          /\ call.results.method_used = None
          /\ call.results.methods_tried = call.methods_to_try
          /\ (~Truthy(call.method) =>
                 call.results.methods_tried = Registry(call.kind))
          /\ call.results.errors =
                 FailedErrorsOf(call.outcomes) \o <<AllFailedError(call.kind)>>
    /\ \A k \in 1..Len(call.outcomes) :
          ( /\ call.outcomes[k].method = "improved_render"
            /\ call.outcomes[k].input.open_ok
            /\ call.outcomes[k].input.hits = <<>>
            /\ call.outcomes[k].input.clusters = <<>> )
          => /\ IsEmptyReturn(call.outcomes[k])
             /\ (call.pc = "returned" =>
                    /\ ~call.results.success
                    /\ call.results.methods_tried = FIGURE_METHODS
                    /\ call.results.errors = <<AllFailedError("figures")>>)

\* C4 witness: all three table backends tried, one of them raised, none found
\* anything
C4_Witness ==
    /\ call.pc = "returned"
    /\ call.results.methods_tried = TABLE_METHODS
    /\ Len(call.outcomes) = 3
    /\ ~call.results.success
    /\ Len(call.results.errors) = 2

\* C4 witness, figures: the page has no "Figure" text and no image
C4_WitnessFigures ==
    /\ call.pc = "returned"
    /\ call.kind = "figures"
    /\ Len(call.outcomes) = 1
    /\ call.outcomes[1].input.open_ok
    /\ ~call.outcomes[1].input.page_error
    /\ call.outcomes[1].input.hits = <<>>
    /\ call.outcomes[1].input.clusters = <<>>
    /\ ~call.results.success

IsRegistered(kind, method) == \E k \in 1..Len(Registry(kind)) : Registry(kind)[k] = method

\* C5: with a preferred method name, only the backend registered under that
\* name is ever invoked, and at most once, whatever it returns or raises;
\* with a name that is not registered for the kind no backend is invoked and
\* the call returns success = false, methods_tried = [], method_used = None,
\* errors = ['Unknown method: <name>'].
C5_PreferredMethod ==
    Truthy(call.method) =>
        /\ Len(call.invoked) <= 1
        /\ \A k \in 1..Len(call.invoked) : call.invoked[k] = call.method
        /\ \A k \in 1..Len(call.results.methods_tried) :
               call.results.methods_tried[k] = call.method
        /\ Len(call.results.methods_tried) <= 1
        /\ ~IsRegistered(call.kind, call.method) =>
               /\ call.invoked = <<>>
               /\ call.results.methods_tried = <<>>
               /\ ~call.results.success
               /\ call.results.method_used = None
               /\ call.results.items = <<>>
               /\ call.pc \in {"select", "returned"}
               /\ (call.pc = "returned" =>
                      call.results.errors = <<UnknownMethodError(call.method)>>)

\* C5 witness: the preferred backend found nothing and the call returned
\* without trying another one
C5_Witness ==
    /\ call.method = "camelot"
    /\ call.kind = "tables"
    /\ call.pc = "returned"
    /\ call.invoked = <<"camelot">>
    /\ IsEmptyReturn(call.outcomes[1])

\* C5 witness, unknown name: a table method asked of extract_figures
C5_WitnessUnknown ==
    /\ call.method = "pymupdf"
    /\ call.kind = "figures"
    /\ call.pc = "returned"
    /\ call.results.errors = <<UnknownMethodError("pymupdf")>>

\* the candidates of a returned list are tables that all have no row
AllRowsZero(value) ==
    /\ value # <<>>
    /\ \A k \in 1..Len(value) : value[k].has_dims /\ value[k].rows = 0

\* C6: a backend result made only of empty grids (every table candidate has
\* rows = 0) is not committed: method_used is not that backend, and the loop
\* goes on as after a backend error.
C6_EmptyGridNotSuccess ==
    \A k \in 1..Len(call.outcomes) :
        ( /\ call.kind = "tables"
          /\ call.outcomes[k].type = "return"
          /\ AllRowsZero(call.outcomes[k].value) )
        => /\ call.results.method_used # call.outcomes[k].method
           /\ ~(call.pc = "returned" /\ Len(call.outcomes) = k
                /\ k < Len(call.methods_to_try))

\* C7: the backends are called one after the other, each at most once, in
\* the order of the list (pymupdf, camelot, tabula when no method is asked
\* for); methods_tried is always a duplicate-free prefix of the list; a
\* backend is called only when every call before it has ended with an empty
\* list or an exception, so at most one call is in flight.
C7_Sequential ==
    /\ NoDuplicates(call.invoked)
    /\ Len(call.invoked) <= Len(call.methods_to_try)
    /\ call.invoked = SubSeq(call.methods_to_try, 1, Len(call.invoked))
    /\ call.results.methods_tried = call.invoked
    /\ (call.kind = "tables" /\ ~Truthy(call.method) /\ call.pc # "select")
       => call.methods_to_try = <<"pymupdf", "camelot", "tabula">>
    /\ Len(call.invoked) - Len(call.outcomes) =
           (IF call.pc = "inflight" THEN 1 ELSE 0)
    /\ \A k \in 1..Len(call.outcomes) :
           /\ call.outcomes[k].method = call.invoked[k]
           /\ k < Len(call.invoked) => ~IsNonEmptyReturn(call.outcomes[k])

\* C7 witness: the third backend is in flight after the first raised and the
\* second found nothing
C7_Witness ==
    /\ call.pc = "inflight"
    /\ call.invoked = <<"pymupdf", "camelot", "tabula">>
    /\ Len(call.outcomes) = 2
    /\ IsRaise(call.outcomes[1])
    /\ IsEmptyReturn(call.outcomes[2])

\* last element of a non-empty sequence
Last(s) == s[Len(s)]

\* C8: in every returned result, success <=> method_used is not None <=> the
\* candidate list is not empty; on success method_used is the last of
\* methods_tried and table_count / figure_count is present and is the number
\* of candidates; on failure there are no candidates and no method_used.
C8_ResultConsistency ==
    call.pc = "returned" =>
        LET r == call.results
        IN  /\ r.success <=> (r.method_used # None)
            /\ r.success <=> (r.items # <<>>)
            /\ r.success =>
                   /\ r.methods_tried # <<>>
                   /\ r.method_used = Last(r.methods_tried)
                   /\ r.has_count
                   /\ r.count = Len(r.items)
            /\ ~r.success => (r.items = <<>> /\ r.method_used = None)

\* C8 witness: a returned success with two candidates from the second backend
C8_Witness ==
    /\ call.pc = "returned"
    /\ call.results.success
    /\ call.results.count = 2
    /\ Len(call.results.methods_tried) = 2

\* C8 witness: a returned failure
C8_WitnessFailure ==
    /\ call.pc = "returned"
    /\ ~call.results.success
    /\ call.results.methods_tried # <<>>

\* ------------------------------------------------------------------------
\* OlmOCRExtractor: the parsers of the vision model's output
\* ------------------------------------------------------------------------

\* the rows of an HTML table and the cells of a row that are enumerated
MaxHtmlRows == 2

MaxHtmlCells == 2

\* the lines of a markdown text that are enumerated
MaxLines == 3

\* int(s) succeeds on the decimal strings and raises ValueError otherwise
IsInt(s) == s \in {"0", "1", "2", "3"}

IntOf(s) == CASE s = "0" -> 0 [] s = "1" -> 1 [] s = "2" -> 2 [] s = "3" -> 3

\* a cell that ignores its colspan
ExpandCell_NoSpan(cell) == <<cell.text>>

\* row_data.append(text), then row_data.append('') colspan - 1 times
ExpandCell(cell) == <<cell.text>> \o Repeat("", IntOf(cell.colspan) - 1)

RECURSIVE RowData(_)
\* the loop over the cells of one <tr>: the cell's text, then one '' for
\* every further column it spans; error: int() of the colspan raised
RowData(cells) ==
    IF cells = <<>> THEN [error |-> FALSE, row_data |-> <<>>]
    ELSE LET cell == Head(cells)
         IN  IF ~IsInt(cell.colspan) THEN [error |-> TRUE, row_data |-> <<>>]
             ELSE LET rest == RowData(Tail(cells))
                  IN  IF rest.error THEN rest
                      ELSE [error |-> FALSE,
                            row_data |-> ExpandCell(cell) \o rest.row_data]

RECURSIVE MarkdownRows(_)
\* the loop over the <tr> of one table: a row without cells adds nothing,
\* max_cols is the length of the longest row_data
MarkdownRows(rows) ==
    IF rows = <<>> THEN [error |-> FALSE, markdown_rows |-> <<>>, max_cols |-> 0]
    ELSE IF Head(rows) = <<>> THEN MarkdownRows(Tail(rows))
    ELSE LET r == RowData(Head(rows))
         IN  IF r.error
             THEN [error |-> TRUE, markdown_rows |-> <<>>, max_cols |-> 0]
             ELSE LET rest == MarkdownRows(Tail(rows))
                  IN  IF rest.error THEN rest
                      ELSE [error |-> FALSE,
                            markdown_rows |->
                                <<[kind |-> "row", cells |-> r.row_data]>>
                                \o rest.markdown_rows,
                            max_cols |-> Max2(Len(r.row_data), rest.max_cols)]

\* markdown_rows.insert(1, separator) when there is more than one row
InsertSeparator(markdown_rows, max_cols) ==
    IF Len(markdown_rows) > 1
    THEN <<markdown_rows[1], [kind |-> "sep", cells |-> Repeat("---", max_cols)]>>
         \o Tail(markdown_rows)
    ELSE markdown_rows

\* the table_data dictionary of parse_html_tables (the title, looked up in
\* the element before the table, takes no part in rows, cols or markdown)
HtmlCandidate(markdown_rows, max_cols, tables, page_num) ==
    LET lines == InsertSeparator(markdown_rows, max_cols)
    IN  [table_index |-> Len(tables),
         page |-> page_num + 1,
         markdown |-> lines,
         rows |-> Len(lines) - 1,
         cols |-> max_cols,
         extraction_method |-> "olmocr_vlm"]

RECURSIVE HtmlTablesLoop(_, _, _)
\* the loop over soup.find_all('table'): a table without <tr>, or whose <tr>
\* hold no cell, is skipped; an exception leaves the loop with the tables
\* appended so far
HtmlTablesLoop(html_tables, tables, page_num) ==
    IF html_tables = <<>> THEN [error |-> FALSE, tables |-> tables]
    ELSE LET rows == Head(html_tables)
             m == MarkdownRows(rows)
         IN  IF rows = <<>> THEN HtmlTablesLoop(Tail(html_tables), tables, page_num)
             ELSE IF m.error THEN [error |-> TRUE, tables |-> tables]
             ELSE IF m.markdown_rows = <<>>
                  THEN HtmlTablesLoop(Tail(html_tables), tables, page_num)
             ELSE HtmlTablesLoop(Tail(html_tables),
                                 Append(tables, HtmlCandidate(m.markdown_rows, m.max_cols,
                                                              tables, page_num)),
                                 page_num)

\* parse_html_tables without its try / except
parse_html_tables_NoExcept(html_tables, page_num) ==
    LET r == HtmlTablesLoop(html_tables, <<>>, page_num)
    IN  [raised |-> r.error, tables |-> r.tables]

\* parse_html_tables: the except clause logs and the tables list is returned
parse_html_tables(html_tables, page_num) ==
    LET r == HtmlTablesLoop(html_tables, <<>>, page_num)
    IN  [raised |-> FALSE, tables |-> r.tables]

\* A line of markdown text is the sequence of the pieces line.split('|')
\* gives: "" is a piece that is empty or white space, "a" a piece with text,
\* "---" a piece that begins with dashes, " --- " dashes after a blank.

\* '|' in line
HasPipe(line) == Len(line) > 1

\* r.strip(): a line is blank when it is one piece of white space
NonBlank(r) == Len(r) > 1 \/ r[1] # ""

\* r.strip().startswith('|---')
StartsWithSeparator(r) == Len(r) > 1 /\ r[1] = "" /\ r[2] = "---"

\* len([c for c in row.split('|') if c.strip()])
CountCols(row) == Cardinality({k \in 1..Len(row) : row[k] # ""})

\* rows = [r for r in current_table if r.strip() and not r.strip().startswith('|---')]
TableRows(current_table) ==
    SelectSeq(current_table, LAMBDA r : NonBlank(r) /\ ~StartsWithSeparator(r))

\* variant of MarkdownCandidate: the separator lines are left out of the
\* candidate's markdown
MarkdownCandidate_SkipSeparators(current_table, tables, page_num) ==
    LET rows == TableRows(current_table)
    IN  IF rows # <<>>
        THEN << [table_index |-> Len(tables),
                 page |-> page_num + 1,
                 markdown |-> rows,
                 rows |-> Len(rows),
                 cols |-> CountCols(rows[1]),
                 extraction_method |-> "olmocr_vlm"] >>
        ELSE <<>>

\* "end of table, process it": the candidate of the accumulated lines, none
\* when no line is left after the separator lines are taken out (the title,
\* looked up in the three lines before the table, takes no part in rows,
\* cols or markdown)
MarkdownCandidate(current_table, tables, page_num) ==
    LET rows == TableRows(current_table)
    IN  IF rows # <<>>
        THEN << [table_index |-> Len(tables),
                 page |-> page_num + 1,
                 markdown |-> current_table,
                 rows |-> Len(rows),
                 cols |-> CountCols(rows[1]),
                 extraction_method |-> "olmocr_vlm"] >>
        ELSE <<>>

RECURSIVE MarkdownLinesLoop(_, _, _, _, _)
\* the loop over markdown.split('\n') and the "table at end of markdown" test
MarkdownLinesLoop(lines, in_table, current_table, tables, page_num) ==
    IF lines = <<>>
    THEN (IF in_table /\ current_table # <<>>
          THEN tables \o MarkdownCandidate(current_table, tables, page_num)
          ELSE tables)
    ELSE IF HasPipe(Head(lines))
         THEN MarkdownLinesLoop(Tail(lines), TRUE,
                                (IF in_table THEN current_table ELSE <<>>)
                                    \o <<Head(lines)>>,
                                tables, page_num)
    ELSE IF in_table /\ current_table # <<>>
         THEN MarkdownLinesLoop(Tail(lines), FALSE, <<>>,
                                tables \o MarkdownCandidate(current_table, tables, page_num),
                                page_num)
    ELSE MarkdownLinesLoop(Tail(lines), in_table, current_table, tables, page_num)

\* parse_tables_from_markdown: only string and list operations, no statement
\* of it can raise on a str
parse_tables_from_markdown(lines, page_num) ==
    [raised |-> FALSE,
     tables |-> MarkdownLinesLoop(lines, FALSE, <<>>, <<>>, page_num)]

\* ------------------------------------------------------------------------
\* Texts given to the parsers
\* ------------------------------------------------------------------------

\* <td>a</td>, <td colspan="2">b</td>, <td colspan="x">c</td>
HtmlCells ==
    {[text |-> "a", colspan |-> "1"],
     [text |-> "b", colspan |-> "2"],
     [text |-> "c", colspan |-> "x"]}

\* row.find_all(['td', 'th']) of a <tr>
HtmlRows == SeqUpTo(HtmlCells, MaxHtmlCells)

\* html_table.find_all('tr') of a <table>
HtmlTables == SeqUpTo(HtmlRows, MaxHtmlRows)

\* <table><tr><td>a</td><td>a</td></tr><tr><td>a</td><td>a</td></tr></table>
GoodHtmlTable ==
    LET cell == [text |-> "a", colspan |-> "1"] IN <<<<cell, cell>>, <<cell, cell>>>>

\* soup.find_all('table'): no table, one table, or a well-formed table
\* followed by one table
HtmlDocuments ==
    {<<>>} \cup {<<t>> : t \in HtmlTables} \cup {<<GoodHtmlTable, t>> : t \in HtmlTables}

\* '', 'text', '| a | a |', '| a |', '|---|---|', '| --- | --- |', 'a | a',
\* '| a |  | a |'
MarkdownLineShapes ==
    { <<"">>, <<"a">>,
      <<"", "a", "a", "">>, <<"", "a", "">>,
      <<"", "---", "---", "">>, <<"", " --- ", " --- ", "">>,
      <<"a", "a">>,
      <<"", "a", "", "a", "">> }

\* markdown.split('\n') always has one line at least
MarkdownTexts == SeqUpTo(MarkdownLineShapes, MaxLines) \ {<<>>}

\* table.extract(): every row has one entry per column of the table, an
\* entry is the cell's text or None
ExtractedGrids ==
    {<<>>} \cup UNION {[1..r -> [1..c -> {"v", None}]] :
                          r \in 1..MaxGridRows, c \in 1..MaxGridCols}

NormInputs ==
    [kind : {"html"}, text : HtmlDocuments]
    \cup [kind : {"markdown"}, text : MarkdownTexts]
    \cup [kind : {"grid"}, text : ExtractedGrids]

\* ------------------------------------------------------------------------
\* The state machine of one run of a parser
\* ------------------------------------------------------------------------

InitNorm ==
    /\ call = NewCall("tables", None, FALSE)
    /\ \E input \in NormInputs : norm = [NormIdle EXCEPT !.input = input]
    /\ run = RunIdle
    /\ api = ApiIdle
    /\ pair = PairIdle

ParseHtml ==
    /\ norm.fn = "none"
    /\ norm.input.kind = "html"
    /\ norm' = [norm EXCEPT !.fn = "parse_html_tables",
                            !.output = parse_html_tables(norm.input.text, 0)]
    /\ UNCHANGED <<call, run, api, pair>>

ParseMarkdown ==
    /\ norm.fn = "none"
    /\ norm.input.kind = "markdown"
    /\ norm' = [norm EXCEPT !.fn = "parse_tables_from_markdown",
                            !.output = parse_tables_from_markdown(norm.input.text, 0)]
    /\ UNCHANGED <<call, run, api, pair>>

\* extract_tables_from_page renders one grid of find_tables()
ConvertGrid ==
    /\ norm.fn = "none"
    /\ norm.input.kind = "grid"
    /\ norm' = [norm EXCEPT !.fn = "_convert_to_markdown",
                            !.output = [raised |-> FALSE,
                                        tables |-> <<PyMuPDFCandidate(0, norm.input.text)>>]]
    /\ UNCHANGED <<call, run, api, pair>>

NextNorm == ParseHtml \/ ParseMarkdown \/ ConvertGrid

SpecNorm == InitNorm /\ [][NextNorm]_vars

\* ------------------------------------------------------------------------
\* Properties of the parsers
\* ------------------------------------------------------------------------

\* the numbers of cells of the rows a candidate's markdown holds; a line of
\* parse_tables_from_markdown is measured as the parser measures the first
\* row, by its pieces that are not blank
RowWidths(fn, cand) ==
    IF fn = "parse_tables_from_markdown"
    THEN {CountCols(TableRows(cand.markdown)[k]) :
              k \in 1..Len(TableRows(cand.markdown))}
    ELSE {Len(cand.markdown[k].cells) :
              k \in {j \in 1..Len(cand.markdown) : cand.markdown[j].kind = "row"}}

\* C9: every row of every table emitted by parse_html_tables,
\* parse_tables_from_markdown and _convert_to_markdown has exactly cols
\* cells (shorter rows are padded, no ragged output).
C9_NoRaggedOutput ==
    norm.fn # "none" =>
        \A k \in 1..Len(norm.output.tables) :
            RowWidths(norm.fn, norm.output.tables[k])
                \subseteq {norm.output.tables[k].cols}

\* some cell of the table carries a colspan that is not a number
HtmlTableMalformed(rows) ==
    \E i \in 1..Len(rows) : \E j \in 1..Len(rows[i]) : ~IsInt(rows[i][j].colspan)

HtmlMalformed(html_tables) ==
    \E k \in 1..Len(html_tables) : HtmlTableMalformed(html_tables[k])

\* the position of the first table with such a cell
FirstMalformed(html_tables) ==
    CHOOSE k \in 1..Len(html_tables) :
        /\ HtmlTableMalformed(html_tables[k])
        /\ \A j \in 1..(k - 1) : ~HtmlTableMalformed(html_tables[j])

\* no <tr> of the document holds a cell
HtmlNoCells(html_tables) ==
    \A k \in 1..Len(html_tables) :
        \A i \in 1..Len(html_tables[k]) : html_tables[k][i] = <<>>

\* a line with a '|' that is not a row written between two '|'
StrayPipe(line) == HasPipe(line) /\ ~(line[1] = "" /\ line[Len(line)] = "")

MarkdownStray(lines) == \E k \in 1..Len(lines) : StrayPipe(lines[k])

NoPipe(lines) == \A k \in 1..Len(lines) : ~HasPipe(lines[k])

C10_WitnessStray ==
    /\ norm.fn = "parse_tables_from_markdown"
    /\ \A k \in 1..Len(norm.input.text) :
          HasPipe(norm.input.text[k]) => StrayPipe(norm.input.text[k])
    /\ Len(norm.output.tables) = 1

\* the empty text and the text without a table gave no candidate
C10_WitnessEmpty ==
    /\ norm.fn = "parse_tables_from_markdown"
    /\ norm.input.text = <<<<"">>>>
    /\ norm.output.tables = <<>>

\* the <tr> of a table that hold a cell, in document order
ContentRows(rows) == SelectSeq(rows, LAMBDA r : r # <<>>)

\* the tables parse_html_tables reads to the end: those before the first
\* table with a non-numeric colspan, all of them when there is none
ReadableTables(html_tables) ==
    IF HtmlMalformed(html_tables)
    THEN SubSeq(html_tables, 1, FirstMalformed(html_tables) - 1)
    ELSE html_tables

\* of these, the tables that hold a cell: one candidate is emitted for each
EmittingTables(html_tables) ==
    SelectSeq(ReadableTables(html_tables), LAMBDA t : ContentRows(t) # <<>>)

RECURSIVE SpanSum(_)
\* the sum of the colspans of the cells of a row
SpanSum(cells) ==
    IF cells = <<>> THEN 0 ELSE IntOf(Head(cells).colspan) + SpanSum(Tail(cells))

\* the column at which cell j of a row starts (0-based)
StartColumn(cells, j) == SpanSum(SubSeq(cells, 1, j - 1))

\* the lines of a candidate's markdown that are rows of cells
RowLines(cand) == SelectSeq(cand.markdown, LAMBDA l : l.kind = "row")

\* <table><tr><th colspan="2">b</th></tr><tr><td>a</td><td>a</td></tr></table>
SpannedHeaderTable ==
    << <<[text |-> "b", colspan |-> "2"]>>,
       <<[text |-> "a", colspan |-> "1"], [text |-> "a", colspan |-> "1"]>> >>

\* C11: in parse_html_tables a cell with colspan N >= 1 contributes its text
\* once, followed by N - 1 empty cells: every emitted row is as long as the
\* sum of the colspans of its cells, with each cell's text at the column
\* where the cell starts and '' in the other columns; the 2x2 table whose
\* header is one cell with colspan 2 gives cols = 2 and the rows
\* ['b', ''] and ['a', 'a'].
C11_ColspanExpansion ==
    norm.fn = "parse_html_tables" =>
        LET src == EmittingTables(norm.input.text)
            out == norm.output.tables
        IN  /\ Len(out) = Len(src)
            /\ \A t \in 1..Len(src) :
                  LET rows == ContentRows(src[t])
                      lines == RowLines(out[t])
                  IN  /\ Len(lines) = Len(rows)
                      /\ \A i \in 1..Len(rows) :
                            /\ Len(lines[i].cells) = SpanSum(rows[i])
                            /\ \A j \in 1..Len(rows[i]) :
                                  /\ IntOf(rows[i][j].colspan) >= 1
                                  /\ lines[i].cells[StartColumn(rows[i], j) + 1]
                                        = rows[i][j].text
                                  /\ \A c \in 2..IntOf(rows[i][j].colspan) :
                                        lines[i].cells[StartColumn(rows[i], j) + c] = ""
            /\ norm.input.text = <<SpannedHeaderTable>> =>
                  /\ Len(out) = 1
                  /\ out[1].cols = 2
                  /\ RowLines(out[1]) = << [kind |-> "row", cells |-> <<"b", "">>],
                                           [kind |-> "row", cells |-> <<"a", "a">>] >>

\* the 2x2 table with the spanned header was parsed
C11_Witness ==
    /\ norm.fn = "parse_html_tables"
    /\ norm.input.text = <<SpannedHeaderTable>>
    /\ Len(norm.output.tables) = 1

\* ------------------------------------------------------------------------
\* The confidence scorer (enhanced.py)
\* ------------------------------------------------------------------------

\* A score is kept as the exact fraction num / den of the sum the code adds
\* up in floating point.
Rat(n, d) == [num |-> n, den |-> d]

RatLeq(a, b) == a.num * b.den <= b.num * a.den

RatEq(a, b) == a.num * b.den = b.num * a.den

\* min(score, 1.0)
MinOne(a) == IF a.num > a.den THEN Rat(1, 1) ELSE a

\* "if cell" / "if bbox": None and '' are false
IsTruthy(x) == x # None /\ x # ""

RECURSIVE CountTruthy(_)
\* sum(1 for cell in row if cell)
CountTruthy(row) ==
    IF row = <<>> THEN 0
    ELSE (IF IsTruthy(Head(row)) THEN 1 ELSE 0) + CountTruthy(Tail(row))

RECURSIVE NonEmptyCells(_)
\* sum(1 for row in table for cell in row if cell)
NonEmptyCells(table) ==
    IF table = <<>> THEN 0 ELSE CountTruthy(Head(table)) + NonEmptyCells(Tail(table))

\* len(set(len(row) for row in table)) == 1
ConsistentColumns(table) == Cardinality({Len(table[k]) : k \in 1..Len(table)}) = 1

\* _calculate_table_confidence: 0.5, + 0.2 with a bounding box, + 0.15 when
\* all rows have one length, + 0.15 * non_empty / (len(table) * len(table[0])),
\* at most 1.0; the division raises ZeroDivisionError when the first row has
\* no cell.  In twentieths of the divisor: 10, 4, 3 and 3 per non-empty cell.
_calculate_table_confidence(table, bbox) ==
    IF table = <<>> THEN [raised |-> FALSE, score |-> Rat(0, 1)]
    ELSE LET divisor == Len(table) * Len(table[1])
             non_empty == NonEmptyCells(table)
         IN  IF divisor = 0 THEN [raised |-> TRUE, score |-> Rat(0, 1)]
             ELSE [raised |-> FALSE,
                   score |-> MinOne(Rat(10 * divisor
                                        + (IF IsTruthy(bbox) THEN 4 * divisor ELSE 0)
                                        + (IF ConsistentColumns(table) THEN 3 * divisor ELSE 0)
                                        + 3 * non_empty,
                                        20 * divisor))]

\* rows of a table handed to the scorer: any number of cells up to the bound,
\* a cell is its text or None
ScoredRows == SeqUpTo({"v", None}, MaxGridCols)

ScoredTables == SeqUpTo(ScoredRows, MaxGridRows)

ScoreInputs == [kind : {"score"}, table : ScoredTables, bbox : {None, "bbox"}]

InitScore ==
    /\ call = NewCall("tables", None, FALSE)
    /\ norm = NormIdle
    /\ api = ApiIdle
    /\ \E input \in ScoreInputs : run = [RunIdle EXCEPT !.input = input]
    /\ pair = PairIdle

Score ==
    /\ run.fn = "none"
    /\ run.input.kind = "score"
    /\ run' = [run EXCEPT !.fn = "_calculate_table_confidence",
                          !.output = _calculate_table_confidence(run.input.table,
                                                                 run.input.bbox)]
    /\ UNCHANGED <<call, norm, api, pair>>

NextScore == Score

SpecScore == InitScore /\ [][NextScore]_vars

\* ------------------------------------------------------------------------
\* Properties of the scorer
\* ------------------------------------------------------------------------

\* C12: for every table passed to _calculate_table_confidence (with or
\* without a bounding box, uniform or ragged, with rows longer than the
\* first row, with a first row of zero cells) the call does not raise and
\* returns a score in [0.0, 1.0].
C12_ConfidenceRange ==
    run.fn = "_calculate_table_confidence" =>
        /\ ~run.output.raised
        /\ RatLeq(Rat(0, 1), run.output.score)
        /\ RatLeq(run.output.score, Rat(1, 1))

\* the number of cells of a table
AllCells(table) == Len(Flatten(table))

\* C13: the score of a non-empty table is
\* min(1.0, 0.5 + 0.2 [bbox] + 0.15 [all rows one length] + 0.15 f), f the
\* fraction of non-empty cells among all cells of the table, so that a table
\* without a bounding box scores at most 0.8 (stated for the calls that
\* return a score).
C13_ConfidenceComposition ==
    (/\ run.fn = "_calculate_table_confidence"
     /\ run.input.table # <<>>
     /\ ~run.output.raised) =>
        LET table == run.input.table
            all == AllCells(table)
        IN  /\ RatEq(run.output.score,
                     MinOne(Rat(10 * all
                                + (IF IsTruthy(run.input.bbox) THEN 4 * all ELSE 0)
                                + (IF ConsistentColumns(table) THEN 3 * all ELSE 0)
                                + 3 * NonEmptyCells(table),
                                20 * all)))
            /\ ~IsTruthy(run.input.bbox) => RatLeq(run.output.score, Rat(4, 5))

\* ------------------------------------------------------------------------
\* ImprovedFigureExtractor._cluster_rectangles
\* ------------------------------------------------------------------------

\* the rectangles of a list that are enumerated
MaxRects == 3

\* distance_threshold, as given by _detect_figure_regions_by_image_clusters
DistanceThreshold == 50

\* _rect_distance(rect1, rect2) < distance_threshold, on twice the centre
\* coordinates and the squares: (x0 + x1) / 2 is the centre's x
RectClose(rect1, rect2) ==
    LET dx == (rect1.x0 + rect1.x1) - (rect2.x0 + rect2.x1)
        dy == (rect1.y0 + rect1.y1) - (rect2.y0 + rect2.y1)
    IN  dx * dx + dy * dy < 4 * DistanceThreshold * DistanceThreshold

\* "for cluster_rect in cluster: if close: ... break"
CloseToCluster(rects, cluster, j) ==
    \E k \in 1..Len(cluster) : RectClose(rects[cluster[k]], rects[j])

RECURSIVE GrowCluster(_, _, _, _)
\* the inner loop over j: one pass over the list in its order, a rectangle
\* not yet used joins the cluster when it is close to a member the cluster
\* has at that moment.  A cluster is the list of the positions of its members.
GrowCluster(rects, j, cluster, used) ==
    IF j > Len(rects) THEN [cluster |-> cluster, used |-> used]
    ELSE IF j \notin used /\ CloseToCluster(rects, cluster, j)
         THEN GrowCluster(rects, j + 1, Append(cluster, j), used \cup {j})
         ELSE GrowCluster(rects, j + 1, cluster, used)

RECURSIVE ClusterLoop(_, _, _, _)
\* the outer loop over i: every rectangle not yet used starts a cluster
ClusterLoop(rects, i, clusters, used) ==
    IF i > Len(rects) THEN clusters
    ELSE IF i \in used THEN ClusterLoop(rects, i + 1, clusters, used)
    ELSE LET g == GrowCluster(rects, 1, <<i>>, used \cup {i})
         IN  ClusterLoop(rects, i + 1, Append(clusters, g.cluster), g.used)

\* _cluster_rectangles: the clusters as lists of rectangles
_cluster_rectangles(rects) ==
    LET clusters == ClusterLoop(rects, 1, <<>>, {})
    IN  [c \in 1..Len(clusters) |->
            [k \in 1..Len(clusters[c]) |-> rects[clusters[c][k]]]]

\* a 20 x 20 rectangle with its centre at (cx, cy)
RectAt(cx, cy) == [x0 |-> cx - 10, y0 |-> cy - 10, x1 |-> cx + 10, y1 |-> cy + 10]

\* image rectangles of a page: three in a row 40 apart, one 40 above the
\* last, one exactly 50 below the first
ImageRects ==
    {RectAt(10, 10), RectAt(50, 10), RectAt(90, 10), RectAt(90, 50), RectAt(10, 60)}

\* lists of different rectangles
RectLists ==
    {rects \in SeqUpTo(ImageRects, MaxRects) :
        \A a, b \in 1..Len(rects) : a # b => rects[a] # rects[b]}

ClusterInputs == [kind : {"cluster"}, rects : RectLists]

InitCluster ==
    /\ call = NewCall("figures", None, FALSE)
    /\ norm = NormIdle
    /\ api = ApiIdle
    /\ \E input \in ClusterInputs : run = [RunIdle EXCEPT !.input = input]
    /\ pair = PairIdle

Cluster ==
    /\ run.fn = "none"
    /\ run.input.kind = "cluster"
    /\ run' = [run EXCEPT !.fn = "_cluster_rectangles",
                          !.output = [raised |-> FALSE,
                                      clusters |-> _cluster_rectangles(run.input.rects)]]
    /\ UNCHANGED <<call, norm, api, pair>>

NextCluster == Cluster

SpecCluster == InitCluster /\ [][NextCluster]_vars

\* ------------------------------------------------------------------------
\* Properties of the clustering
\* ------------------------------------------------------------------------

\* the set of the elements of a list
Range(s) == {s[k] : k \in 1..Len(s)}

\* the partition a list of clusters stands for
PartitionOf(clusters) == {Range(clusters[c]) : c \in 1..Len(clusters)}

\* C14: for every set of rectangles and every two orderings of it,
\* _cluster_rectangles yields the same partition.
C14_OrderIndependent ==
    run.fn = "_cluster_rectangles" =>
        \A other \in RectLists :
            Range(other) = Range(run.input.rects) =>
                PartitionOf(_cluster_rectangles(other))
                    = PartitionOf(run.output.clusters)

RECURSIVE ChainFrom(_, _)
\* the rectangles of a set linked to one of S by a chain of close pairs
ChainFrom(all, S) ==
    LET T == S \cup {r \in all : \E q \in S : RectClose(q, r)}
    IN  IF T = S THEN S ELSE ChainFrom(all, T)

\* every rectangle is in exactly one cluster and no cluster is empty
ClustersPartition ==
    run.fn = "_cluster_rectangles" =>
        LET clusters == run.output.clusters
        IN  /\ \A c \in 1..Len(clusters) : clusters[c] # <<>>
            /\ Len(Flatten(clusters)) = Len(run.input.rects)
            /\ Range(Flatten(clusters)) = Range(run.input.rects)

\* C15: the clusters partition the input, and two rectangles are in one
\* cluster if and only if a chain of rectangles with consecutive centres
\* less than the threshold apart links them.
C15_ConnectedComponents ==
    /\ ClustersPartition
    /\ run.fn = "_cluster_rectangles" =>
          \A r \in Range(run.input.rects) :
              ChainFrom(Range(run.input.rects), {r}) \in PartitionOf(run.output.clusters)

\* ------------------------------------------------------------------------
\* OlmOCRExtractor.extract_via_api: the retry loop
\* ------------------------------------------------------------------------

\* the largest max_retries that is enumerated
MaxRetries == 2

RECURSIVE Pow2(_)
\* 2 ** n
Pow2(n) == IF n <= 0 THEN 1 ELSE 2 * Pow2(n - 1)

\* str(e) of a failed attempt is known by which of the substrings the
\* handler looks for it holds (after lower() for the words)
ApiErrors ==
    { {}, {"timeout"}, {"429"}, {"rate"}, {"401"}, {"authentication"},
      {"401", "timeout"}, {"429", "timeout"}, {"authentication", "rate"} }

\* "timeout" in error_str.lower()
IsTimeout(e) == "timeout" \in e

\* "429" in error_str or "rate" in error_str.lower()
IsRateLimit(e) == "429" \in e \/ "rate" \in e

\* "401" in error_str or "authentication" in error_str.lower()
IsAuth(e) == "401" \in e \/ "authentication" \in e

\* what an API attempt can end with: the completion's text, or an exception
ApiOutcomes == {[ok |-> TRUE, error |-> {}]} \cup [ok : {FALSE}, error : ApiErrors]

NoResult == [type |-> "none", error |-> "none", original |-> {}]

\* extract_via_api entered on an extractor with the given max_retries;
\* events: the API calls and the time.sleep calls made so far, in order
NewApi(max_retries) ==
    [pc |-> "start", max_retries |-> max_retries, attempt |-> 0,
     events |-> <<>>, result |-> NoResult]

\* raise Exception(...) out of extract_via_api
ApiRaise(a, error, original) ==
    [a EXCEPT !.pc = "raised",
              !.result = [type |-> "raise", error |-> error, original |-> original]]

\* time.sleep(secs), then the next round of the for loop
SleepAndRetry(a, secs) ==
    [a EXCEPT !.events = Append(@, [ev |-> "sleep", attempt |-> a.attempt,
                                    ok |-> FALSE, error |-> {}, secs |-> secs]),
              !.attempt = @ + 1]

\* the timeout branch with the rate-limit branch's wait
OnTimeout_LongWait(a) ==
    IF a.attempt = a.max_retries THEN ApiRaise(a, "timeout", {})
    ELSE SleepAndRetry(a, Pow2(a.attempt + 1))

\* the timeout branch: "olmOCR API timeout after N attempts" at the ceiling,
\* otherwise time.sleep(2 ** attempt)
OnTimeout(a) ==
    IF a.attempt = a.max_retries THEN ApiRaise(a, "timeout", {})
    ELSE SleepAndRetry(a, Pow2(a.attempt))

\* the rate-limit branch with the timeout branch's wait
OnRateLimit_ShortWait(a) ==
    IF a.attempt < a.max_retries THEN SleepAndRetry(a, Pow2(a.attempt))
    ELSE ApiRaise(a, "rate_limit", {})

\* the rate-limit branch: time.sleep(2 ** (attempt + 1)) below the ceiling,
\* otherwise "olmOCR API rate limit exceeded"
OnRateLimit(a) ==
    IF a.attempt < a.max_retries THEN SleepAndRetry(a, Pow2(a.attempt + 1))
    ELSE ApiRaise(a, "rate_limit", {})

\* the authentication branch: "olmOCR API authentication failed - check API key"
OnAuth(a) == ApiRaise(a, "authentication", {})

\* the last branches with the exception wrapped at the ceiling
OnOther_Wrapped(a, e) ==
    IF a.attempt = a.max_retries THEN ApiRaise(a, "failed", {})
    ELSE SleepAndRetry(a, Pow2(a.attempt))

\* the last two branches: a bare raise of the exception at the ceiling,
\* otherwise time.sleep(2 ** attempt)
OnOther(a, e) ==
    IF a.attempt = a.max_retries THEN ApiRaise(a, "original", e)
    ELSE SleepAndRetry(a, Pow2(a.attempt))

\* the except clause: the first branch whose test the message passes
OnApiError(a, e) ==
    IF IsTimeout(e) THEN OnTimeout(a)
    ELSE IF IsRateLimit(e) THEN OnRateLimit(a)
    ELSE IF IsAuth(e) THEN OnAuth(a)
    ELSE OnOther(a, e)

\* pdf_page_to_base64 before the loop: its exception leaves extract_via_api
ConvertStep(a, ok) ==
    IF ok THEN [a EXCEPT !.pc = "loop"] ELSE ApiRaise(a, "conversion", {})

\* variant of AttemptStep: a successful call does not return, the loop goes on
AttemptStep_NoReturn(a, outcome) ==
    LET called == [a EXCEPT !.events =
                       Append(@, [ev |-> "call", attempt |-> a.attempt,
                                  ok |-> outcome.ok, error |-> outcome.error,
                                  secs |-> 0])]
    IN  IF outcome.ok
        THEN [called EXCEPT !.attempt = @ + 1]
        ELSE OnApiError(called, outcome.error)

\* one round of the for loop: the API call, then the return or the handler
AttemptStep(a, outcome) ==
    LET called == [a EXCEPT !.events =
                       Append(@, [ev |-> "call", attempt |-> a.attempt,
                                  ok |-> outcome.ok, error |-> outcome.error,
                                  secs |-> 0])]
    IN  IF outcome.ok
        THEN [called EXCEPT !.pc = "returned",
                            !.result = [type |-> "return", error |-> "none",
                                        original |-> {}]]
        ELSE OnApiError(called, outcome.error)

InitApi ==
    /\ call = NewCall("tables", None, FALSE)
    /\ norm = NormIdle
    /\ run = RunIdle
    /\ \E max_retries \in 0..MaxRetries : api = NewApi(max_retries)
    /\ pair = PairIdle

Convert ==
    /\ api.pc = "start"
    /\ \E ok \in BOOLEAN : api' = ConvertStep(api, ok)
    /\ UNCHANGED <<call, norm, run, pair>>

Attempt ==
    /\ api.pc = "loop"
    /\ api.attempt <= api.max_retries
    /\ \E outcome \in ApiOutcomes : api' = AttemptStep(api, outcome)
    /\ UNCHANGED <<call, norm, run, pair>>

NextApi == Convert \/ Attempt

SpecApi == InitApi /\ [][NextApi]_vars

\* ------------------------------------------------------------------------
\* Properties of the retry loop
\* ------------------------------------------------------------------------

\* the API calls made so far
ApiCalls == SelectSeq(api.events, LAMBDA v : v.ev = "call")

\* every API call made so far failed with an error that passes the test
EveryCallFailedWith(Test(_)) ==
    /\ ApiCalls # <<>>
    /\ \A k \in 1..Len(ApiCalls) : ~ApiCalls[k].ok /\ Test(ApiCalls[k].error)

\* the event at position k is the failed call number a (0-based) and it was
\* answered by the schedule: below the ceiling one sleep of Wait(a) seconds
\* and then the next round, at the ceiling the terminal error with no sleep
AnsweredBySchedule(k, Wait(_), terminal) ==
    LET v == api.events[k]
    IN  IF v.attempt < api.max_retries
        THEN /\ k < Len(api.events)
             /\ api.events[k + 1].ev = "sleep"
             /\ api.events[k + 1].secs = Wait(v.attempt)
             /\ IF k + 1 = Len(api.events)
                THEN api.pc = "loop" /\ api.attempt = v.attempt + 1
                ELSE /\ api.events[k + 2].ev = "call"
                     /\ api.events[k + 2].attempt = v.attempt + 1
        ELSE /\ k = Len(api.events)
             /\ api.pc = "raised"
             /\ api.result.type = "raise"
             /\ api.result.error = terminal

\* the whole call followed the schedule: attempts 0, 1, ... each answered,
\* and max_retries + 1 of them when the call has ended
FollowedSchedule(Wait(_), terminal) ==
    /\ \A k \in 1..Len(api.events) :
          api.events[k].ev = "call" => AnsweredBySchedule(k, Wait, terminal)
    /\ \A k \in 1..Len(ApiCalls) : ApiCalls[k].attempt = k - 1
    /\ Len(ApiCalls) <= api.max_retries + 1
    /\ api.pc # "returned"
    /\ api.pc = "raised" =>
          /\ Len(ApiCalls) = api.max_retries + 1
          /\ api.result.error = terminal

TimeoutWait(a) == Pow2(a)

RateLimitWait(a) == Pow2(a + 1)

\* C16: if every API attempt fails with a timeout error, exactly
\* max_retries + 1 attempts are made, the wait after failed attempt a
\* (a < max_retries) is 2^a seconds, and the last attempt is followed by
\* the terminal timeout error, with no wait and no further attempt.
C16_TimeoutRetry ==
    EveryCallFailedWith(IsTimeout) => FollowedSchedule(TimeoutWait, "timeout")

\* three attempts timed out, with waits of 1 and 2 seconds, and the call
\* raised the timeout error
C16_Witness ==
    /\ api.pc = "raised"
    /\ api.max_retries = 2
    /\ EveryCallFailedWith(IsTimeout)
    /\ Len(ApiCalls) = 3
    /\ api.result.error = "timeout"

IsRateLimitOnly(e) == IsRateLimit(e) /\ ~IsTimeout(e)

C18_AuthNeverRetried ==
    \A k \in 1..Len(api.events) :
        (/\ api.events[k].ev = "call"
         /\ ~api.events[k].ok
         /\ IsAuth(api.events[k].error)) =>
            /\ k = Len(api.events)
            /\ api.pc = "raised"
            /\ api.result.error = "authentication"

\* an error that is neither timeout, rate limit nor authentication
IsOther(e) == ~IsTimeout(e) /\ ~IsRateLimit(e) /\ ~IsAuth(e)

\* C19: an API error that is neither timeout, rate limit nor authentication
\* is answered like a timeout below the ceiling (a wait of 2^a seconds, then
\* the next attempt); at the ceiling the exception itself is propagated.
C19_OtherErrors ==
    \A k \in 1..Len(api.events) :
        (/\ api.events[k].ev = "call"
         /\ ~api.events[k].ok
         /\ IsOther(api.events[k].error)) =>
            /\ AnsweredBySchedule(k, TimeoutWait, "original")
            /\ api.events[k].attempt = api.max_retries =>
                  api.result.original = api.events[k].error

\* an error of no known kind was retried after 1 second and, at the ceiling,
\* left the call as it was raised
C19_Witness ==
    /\ api.pc = "raised"
    /\ api.max_retries = 1
    /\ Len(ApiCalls) = 2
    /\ \A k \in 1..2 : ~ApiCalls[k].ok /\ IsOther(ApiCalls[k].error)
    /\ api.result.error = "original"

\* ------------------------------------------------------------------------
\* ImprovedFigureExtractor._detect_figure_regions_by_caption
\* ------------------------------------------------------------------------

\* the occurrences of the keyword on a page that are enumerated
MaxOccurrences == 2

\* page.get_textbox at an occurrence of the keyword: "Figure 2A. Outcomes",
\* "Figure shows", "Figure 1.", "Figure1.", "Figure 2 shows", "figure 1.",
\* " Figure  12. ", "Figure 2AB.", "Figure 2a.", "Figures 1."
OccurrenceTexts ==
    { <<"Figure", "ws", "d", "U", ".", "ws", "w">>,
      <<"Figure", "ws", "w">>,
      <<"Figure", "ws", "d", ".">>,
      <<"Figure", "d", ".">>,
      <<"Figure", "ws", "d", "ws", "w">>,
      <<"figure", "ws", "d", ".">>,
      <<"ws", "Figure", "ws", "ws", "d", "d", ".", "ws">>,
      <<"Figure", "ws", "d", "U", "U", ".">>,
      <<"Figure", "ws", "d", "w", ".">>,
      <<"Figure", "w", "ws", "d", ".">> }

\* page.search_for("Figure"): the occurrences in page order, each with the
\* text read at it
Occurrences == SeqUpTo([text : OccurrenceTexts, render_ok : {TRUE}], MaxOccurrences)

DetectInputs == [kind : {"caption"}, hits : Occurrences]

InitDetect ==
    /\ call = NewCall("figures", None, FALSE)
    /\ norm = NormIdle
    /\ api = ApiIdle
    /\ \E input \in DetectInputs : run = [RunIdle EXCEPT !.input = input]
    /\ pair = PairIdle

DetectByCaption ==
    /\ run.fn = "none"
    /\ run.input.kind = "caption"
    /\ run' = [run EXCEPT !.fn = "_detect_figure_regions_by_caption",
                          !.output = [raised |-> FALSE,
                                      regions |-> CaptionRegions(run.input.hits)]]
    /\ UNCHANGED <<call, norm, api, pair>>

NextDetect == DetectByCaption

SpecDetect == InitDetect /\ [][NextDetect]_vars

\* ------------------------------------------------------------------------
\* Properties of the caption detector
\* ------------------------------------------------------------------------

\* a text that begins with 'Figure', one or more whitespace characters, one
\* or more digits, at most one upper-case letter, and a period
IsFigureCaption(s) ==
    \E i, j \in 1..Len(s) :
        /\ s[1] = "Figure"
        /\ 2 <= i /\ i < j
        /\ \A k \in 2..i : s[k] = "ws"
        /\ \A k \in (i + 1)..j : s[k] = "d"
        /\ \/ j + 1 <= Len(s) /\ s[j + 1] = "."
           \/ j + 2 <= Len(s) /\ s[j + 1] = "U" /\ s[j + 2] = "."

\* the texts read at the occurrences, without the white space around them
ReadTexts == [k \in 1..Len(run.input.hits) |-> Strip(run.input.hits[k].text)]

\* C20: the caption detector emits a region for an occurrence of 'Figure'
\* if and only if the text read there matches 'Figure', whitespace, digits,
\* an optional upper-case letter and a period, and the region's caption is
\* that text: the regions are the matching occurrences in page order.  The
\* page whose only text is "Figure 2A. Outcomes ..." gives one region with
\* that caption; a 'Figure' not followed by a number and a period gives none.
C20_CaptionDetection ==
    run.fn = "_detect_figure_regions_by_caption" =>
        LET matching == SelectSeq(ReadTexts, IsFigureCaption)
            regions == run.output.regions
        IN  /\ Len(regions) = Len(matching)
            /\ \A k \in 1..Len(regions) : regions[k].caption = matching[k]
            /\ ReadTexts = << <<"Figure", "ws", "d", "U", ".", "ws", "w">> >> =>
                  /\ Len(regions) = 1
                  /\ regions[1].caption = <<"Figure", "ws", "d", "U", ".", "ws", "w">>
            /\ (\A k \in 1..Len(ReadTexts) :
                    ReadTexts[k] \in { <<"Figure", "ws", "w">>,
                                       <<"Figure", "ws", "d", "ws", "w">> })
                  => regions = <<>>

\* a caption and a stray 'Figure' on one page: one region, with the caption
C20_Witness ==
    /\ run.fn = "_detect_figure_regions_by_caption"
    /\ Len(run.input.hits) = 2
    /\ run.input.hits[1].text = <<"Figure", "ws", "w">>
    /\ run.input.hits[2].text = <<"Figure", "ws", "d", "U", ".", "ws", "w">>
    /\ Len(run.output.regions) = 1
    /\ run.output.regions[1].caption = <<"Figure", "ws", "d", "U", ".", "ws", "w">>

\* ------------------------------------------------------------------------
\* Two orchestrator calls side by side
\* ------------------------------------------------------------------------

\* The endpoints run each request in its own call of the static methods
\* extract_tables / extract_figures.  What the two calls can both reach is
\* the class attributes TABLE_METHODS and FIGURE_METHODS; `results` and
\* `methods_to_try` are locals of each call.  The calls interleave at the
\* steps of the method body.

\* the class attributes as two running calls see them
SharedRegistry == [tables |-> TABLE_METHODS, figures |-> FIGURE_METHODS]

\* two calls at their entry; overlapped records that one call has taken a
\* step while the other was between its first and its last step
NewPair(c1, c2) ==
    [calls |-> <<c1, c2>>, registry |-> SharedRegistry, overlapped |-> FALSE]

Midway(c) == c.pc \in {"loop", "inflight"}

\* variant of PairUpdate: `results` is one dictionary both calls write
PairUpdate_SharedResults(p, k, c) ==
    [p EXCEPT !.calls = [j \in 1..2 |->
                            IF j = k THEN c
                            ELSE [p.calls[j] EXCEPT !.results = c.results]],
              !.overlapped = @ \/ Midway(p.calls[3 - k])]

\* call k takes a step of its body: it writes its own locals only
PairUpdate(p, k, c) ==
    [p EXCEPT !.calls[k] = c,
              !.overlapped = @ \/ Midway(p.calls[3 - k])]

\* the method arguments and backend inputs of the two calls
PairMethodArgs == {None, "tabula", "olmocr"}

OneDf == [error |-> FALSE, dfs |-> <<[rows |-> 1, cols |-> 1]>>]

NoDf == [error |-> FALSE, dfs |-> <<>>]

PairInputs(name) ==
    CASE name = "pymupdf" ->
           PyMuPDFInputs \cap
           { [open_ok |-> FALSE, page_error |-> FALSE, found |-> <<>>, blocks |-> 0],
             [open_ok |-> TRUE, page_error |-> FALSE, found |-> <<>>, blocks |-> 0],
             [open_ok |-> TRUE, page_error |-> FALSE,
              found |-> << <<<<"v">>>> >>, blocks |-> 0] }
      [] name = "camelot" ->
           CamelotInputs(FALSE) \cap
           { [page_given |-> FALSE, lattice |-> ReadError, stream |-> ReadError],
             [page_given |-> FALSE, lattice |-> OneDf, stream |-> ReadError] }
      [] name = "tabula" ->
           TabulaInputs \cap {[read |-> ReadError], [read |-> NoDf], [read |-> OneDf]}
      [] name = "improved_render" ->
           FigureInputs \cap
           { [open_ok |-> FALSE, page_error |-> FALSE, hits |-> <<>>, clusters |-> <<>>],
             [open_ok |-> TRUE, page_error |-> FALSE, hits |-> <<>>, clusters |-> <<>>],
             [open_ok |-> TRUE, page_error |-> FALSE,
              hits |-> <<[text |-> <<"Figure", "ws", "d", "U", ".", "ws", "w">>,
                          render_ok |-> TRUE]>>,
              clusters |-> <<>>] }

InitPair ==
    /\ call = NewCall("tables", None, FALSE)
    /\ norm = NormIdle
    /\ run = RunIdle
    /\ api = ApiIdle
    /\ \E kind1, kind2 \in {"tables", "figures"}, method1, method2 \in PairMethodArgs :
          pair = NewPair(NewCall(kind1, method1, FALSE), NewCall(kind2, method2, FALSE))

PairSelect ==
    /\ \E k \in 1..2 :
          /\ pair.calls[k].pc = "select"
          /\ pair' = PairUpdate(pair, k, SelectStep(pair.calls[k]))
    /\ UNCHANGED <<call, norm, run, api>>

PairInvoke ==
    /\ \E k \in 1..2 :
          LET c == pair.calls[k]
          IN  /\ c.pc = "loop"
              /\ c.i <= Len(c.methods_to_try)
              /\ \E input \in PairInputs(c.methods_to_try[c.i]) :
                    pair' = PairUpdate(pair, k, InvokeStep(c, input))
    /\ UNCHANGED <<call, norm, run, api>>

PairFinish ==
    /\ \E k \in 1..2 :
          /\ pair.calls[k].pc = "inflight"
          /\ pair' = PairUpdate(pair, k, FinishStep(pair.calls[k]))
    /\ UNCHANGED <<call, norm, run, api>>

PairExhaust ==
    /\ \E k \in 1..2 :
          LET c == pair.calls[k]
          IN  /\ c.pc = "loop"
              /\ c.i > Len(c.methods_to_try)
              /\ pair' = PairUpdate(pair, k, ExhaustStep(c))
    /\ UNCHANGED <<call, norm, run, api>>

NextPair == PairSelect \/ PairInvoke \/ PairFinish \/ PairExhaust

SpecPair == InitPair /\ [][NextPair]_vars

RECURSIVE RunAlone(_, _)
\* the call c run on its own from where it stands, its backends given
\* `inputs` in order
RunAlone(c, inputs) ==
    IF c.pc = "select" THEN RunAlone(SelectStep(c), inputs)
    ELSE IF c.pc = "loop" /\ c.i > Len(c.methods_to_try) THEN ExhaustStep(c)
    ELSE IF c.pc = "loop" /\ inputs # <<>>
    THEN RunAlone(FinishStep(InvokeStep(c, Head(inputs))), Tail(inputs))
    ELSE c

\* what the backends of a call were given, in order
InputsOf(c) == [j \in 1..Len(c.outcomes) |-> c.outcomes[j].input]

\* the same call, alone, with the same backend outcomes
AloneResults(c) ==
    RunAlone(NewCall(c.kind, c.method, c.page_given), InputsOf(c)).results

LineCells(r) ==
    LET from == IF r[1] = "" THEN 2 ELSE 1
        to == IF r[Len(r)] = "" THEN Len(r) - 1 ELSE Len(r)
    IN  IF to < from THEN <<>> ELSE SubSeq(r, from, to)

\* the largest number of a finite set of naturals, 0 for the empty set
MaxOf(S) == IF S = {} THEN 0 ELSE CHOOSE m \in S : \A x \in S : x <= m

\* the row lengths of the grid a candidate was made from: the rows of
\* table.extract(), the expanded rows of the <tr>, the counted lines of the run
GridRowLengths(fn, input, cand) ==
    IF fn = "_convert_to_markdown"
    THEN {Len(input[k]) : k \in 1..Len(input)}
    ELSE IF fn = "parse_tables_from_markdown"
    THEN {Len(LineCells(TableRows(cand.markdown)[k])) :
              k \in 1..Len(TableRows(cand.markdown))}
    ELSE RowWidths(fn, cand)

\* C22: for every table candidate of the PyMuPDF grid path, the HTML parser
\* and the markdown parser, the reported cols equals the maximum row length
\* of the candidate's grid, also when the first row is not the widest or
\* holds empty cells.
C22_ColsIsMaxRowLength ==
    norm.fn # "none" =>
        \A k \in 1..Len(norm.output.tables) :
            norm.output.tables[k].cols =
                MaxOf(GridRowLengths(norm.fn, norm.input.text, norm.output.tables[k]))

\* ------------------------------------------------------------------------
\* One page of the figure extractor, and the caption looked up near an image
\* ------------------------------------------------------------------------

\* the number of characters a piece of text stands for
TokenLen(tok) ==
    IF tok = "Figure" \/ tok = "figure" THEN 6 ELSE IF tok = "Table" THEN 5 ELSE 1

RECURSIVE TextLen(_)
TextLen(text) == IF text = <<>> THEN 0 ELSE TokenLen(Head(text)) + TextLen(Tail(text))

\* caption_text[:20]
CaptionWindow == 20

\* any(char.isdigit() for char in caption_text[:20])
DigitInWindow(text) ==
    \E k \in 1..Len(text) :
        text[k] = "d" /\ TextLen(SubSeq(text, 1, k - 1)) < CaptionWindow

\* caption_text.startswith(("Figure", "Fig.", "FIG", "Table")) or a digit in
\* the first 20 characters
LooksLikeCaption(text) ==
    text # <<>> /\ (Head(text) \in {"Figure", "Table"} \/ DigitInWindow(text))

\* PyMuPDFFigureExtractor._extract_caption_near_image: the stripped text of
\* the box below the image, None when it does not look like a caption
_extract_caption_near_image(below) ==
    IF LooksLikeCaption(Strip(below)) THEN Strip(below) ELSE <<None>>

\* extract_figures_from_page with what each strategy detected; reading the
\* page may raise, and the except clause returns no figure
ExtractFiguresFromPage(page) ==
    IF page.page_error
    THEN [raised |-> FALSE, figure_regions |-> <<>>, cluster_run |-> FALSE,
          cluster_regions |-> <<>>, figures |-> <<>>]
    ELSE LET s == FigureStrategies(page)
         IN  [raised |-> FALSE, figure_regions |-> s.figure_regions,
              cluster_run |-> s.cluster_run,
              cluster_regions |-> s.cluster_regions, figures |-> s.figures]

\* page.get_textbox below an image or a cluster: nothing, white space, a
\* word, a figure caption, a table caption, a number
TextsBelow ==
    { <<>>, <<"ws">>, <<"w">>, <<"ws", "w", "ws">>,
      <<"Figure", "ws", "d">>, <<"Table", "ws", "w">>, <<"w", "ws", "d">> }

\* enclosing boxes 79, 80 or 81 points wide and 80 or 81 points high
PageClusters ==
    [x0 : {20}, y0 : {20}, x1 : {99, 100, 101}, y1 : {100, 101},
     below : TextsBelow, render_ok : BOOLEAN]

PageInputs ==
    {[kind |-> "page", page_error |-> TRUE, hits |-> <<>>, clusters |-> <<>>]}
    \cup [kind : {"page"}, page_error : {FALSE},
          hits : SeqUpTo(Hits, MaxHits), clusters : SeqUpTo(PageClusters, MaxClusters)]

NearImageInputs == [kind : {"near_image"}, below : TextsBelow]

InitPage ==
    /\ call = NewCall("figures", None, FALSE)
    /\ norm = NormIdle
    /\ api = ApiIdle
    /\ pair = PairIdle
    /\ \E input \in PageInputs \cup NearImageInputs :
          run = [RunIdle EXCEPT !.input = input]

ExtractPage ==
    /\ run.fn = "none"
    /\ run.input.kind = "page"
    /\ run' = [run EXCEPT !.fn = "extract_figures_from_page",
                          !.output = ExtractFiguresFromPage(run.input)]
    /\ UNCHANGED <<call, norm, api, pair>>

CaptionNearImage ==
    /\ run.fn = "none"
    /\ run.input.kind = "near_image"
    /\ run' = [run EXCEPT !.fn = "_extract_caption_near_image",
                          !.output = [raised |-> FALSE,
                                      caption |-> _extract_caption_near_image(run.input.below)]]
    /\ UNCHANGED <<call, norm, api, pair>>

NextPage == ExtractPage \/ CaptionNearImage

SpecPage == InitPage /\ [][NextPage]_vars

\* the page was read and both strategies could be tried
PageRead == run.fn = "extract_figures_from_page" /\ ~run.input.page_error

Tagged(figures, method) ==
    SelectSeq(figures, LAMBDA f : f.extraction_method = method)

\* C23 as stated: the cluster strategy is run exactly when the caption
\* strategy yielded no region, and with a caption region no figure is
\* tagged render_by_cluster
C23_ClusterIffNoRegions ==
    PageRead =>
        /\ run.output.cluster_run <=> run.output.figure_regions = <<>>
        /\ run.output.figure_regions # <<>> =>
              Tagged(run.output.figures, "render_by_cluster") = <<>>

\* C23: the cluster strategy is run exactly when the caption strategy gave
\* no rendered figure (no region, or regions none of which could be
\* rendered); when it gave one, the cluster strategy is not run and no
\* figure is tagged render_by_cluster
C23_ClusterFallback ==
    PageRead =>
        /\ run.output.cluster_run <=>
              RenderFigures(run.output.figure_regions, 0, "render_by_caption") = <<>>
        /\ run.output.cluster_run <=>
              Tagged(run.output.figures, "render_by_caption") = <<>>
        /\ Tagged(run.output.figures, "render_by_caption") # <<>> =>
              Tagged(run.output.figures, "render_by_cluster") = <<>>

\* a caption region was found and could not be rendered, and a cluster was
\* rendered in its place
C23_Witness ==
    /\ PageRead
    /\ run.output.figure_regions # <<>>
    /\ run.output.cluster_run
    /\ Tagged(run.output.figures, "render_by_cluster") # <<>>

\* the caption strategy gave a figure and the clusters of the page were left
C23_WitnessCaption ==
    /\ PageRead
    /\ run.input.clusters # <<>>
    /\ ~run.output.cluster_run
    /\ Tagged(run.output.figures, "render_by_caption") # <<>>

\* the box of a cluster with 10 added on every side
Padded10(c) ==
    [x0 |-> c.x0 - 10, y0 |-> c.y0 - 10, x1 |-> c.x1 + 10, y1 |-> c.y1 + 10]

\* the clusters whose padded box is 100 wide and 100 high at least
LargeEnough(clusters) ==
    SelectSeq(clusters, LAMBDA c : Padded10(c).x1 - Padded10(c).x0 >= 100
                                   /\ Padded10(c).y1 - Padded10(c).y0 >= 100)

\* C24: when the cluster strategy is run, the regions are, in order, the
\* boxes padded by 10 on every side of the clusters whose padded box is at
\* least 100 x 100 (exactly 100 x 100 included); the other clusters give
\* no region.
C24_ClusterSizeFilter ==
    (PageRead /\ run.output.cluster_run) =>
        [k \in 1..Len(run.output.cluster_regions) |->
            run.output.cluster_regions[k].bbox]
        = [k \in 1..Len(LargeEnough(run.input.clusters)) |->
            Padded10(LargeEnough(run.input.clusters)[k])]

\* C25: the text below a cluster's box, or below an image, is attached as
\* caption only if it starts with a figure / table keyword or holds a digit
\* within its first characters; otherwise the caption is null.
C25_CaptionFilter ==
    /\ PageRead =>
          \A k \in 1..Len(run.output.cluster_regions) :
              run.output.cluster_regions[k].caption # <<None>> =>
                  LooksLikeCaption(run.output.cluster_regions[k].caption)
    /\ run.fn = "_extract_caption_near_image" =>
          (run.output.caption # <<None>> => LooksLikeCaption(run.output.caption))

\* the lines of a candidate's markdown that are separators
SeparatorLines(cand) == SelectSeq(cand.markdown, LAMBDA l : l.kind = "sep")

\* the separator of a candidate stands right after its first row
SeparatorAfterFirstRow(cand) ==
    /\ Len(cand.markdown) >= 2
    /\ cand.markdown[1].kind = "row"
    /\ cand.markdown[2].kind = "sep"
    /\ Len(SeparatorLines(cand)) = 1

\* C26: parse_html_tables inserts the separator right after row 0 if and
\* only if the table has two rows with cells or more, and the reported rows
\* is the number of <tr> that hold a cell: the separator is never counted,
\* for a table of one row too (rows = 1).
C26_HtmlRowCount ==
    norm.fn = "parse_html_tables" =>
        LET src == EmittingTables(norm.input.text)
            out == norm.output.tables
        IN  /\ Len(out) = Len(src)
            /\ \A t \in 1..Len(src) :
                  LET n == Len(ContentRows(src[t]))
                  IN  /\ n >= 2 <=> SeparatorAfterFirstRow(out[t])
                      /\ n < 2 => SeparatorLines(out[t]) = <<>>
                      /\ out[t].rows = n

\* the positions at which a maximal run of lines with '|' starts
RunStarts(lines) ==
    {a \in 1..Len(lines) : HasPipe(lines[a]) /\ (a = 1 \/ ~HasPipe(lines[a - 1]))}

\* the position at which the run that starts at a ends
RunEnd(lines, a) ==
    CHOOSE b \in a..Len(lines) :
        /\ \A k \in a..b : HasPipe(lines[k])
        /\ b = Len(lines) \/ ~HasPipe(lines[b + 1])

RunLines(lines, a) == SubSeq(lines, a, RunEnd(lines, a))

\* the lines of a run that are counted: those that do not begin with '|---'
CountedLines(run_lines) == SelectSeq(run_lines, LAMBDA r : ~StartsWithSeparator(r))

\* the starts of the runs that hold a counted line
TableStarts(lines) == {a \in RunStarts(lines) : CountedLines(RunLines(lines, a)) # <<>>}

\* the start of the t-th such run, in input order
NthStart(lines, t) ==
    CHOOSE a \in TableStarts(lines) :
        Cardinality({x \in TableStarts(lines) : x < a}) = t - 1

\* C27: parse_tables_from_markdown emits one table for every maximal run of
\* consecutive lines with '|' that holds a line not beginning with '|---',
\* the run at the end of the input included; table_index runs from 0 in
\* input order, markdown is the run's lines unchanged (separator lines
\* too), rows counts the run's lines that do not begin with '|---', and cols
\* is the number of non-empty '|'-separated segments of the first counted
\* line.
C27_MarkdownRuns ==
    norm.fn = "parse_tables_from_markdown" =>
        LET lines == norm.input.text
            out == norm.output.tables
        IN  /\ ~norm.output.raised
            /\ Len(out) = Cardinality(TableStarts(lines))
            /\ \A t \in 1..Len(out) :
                  LET run_lines == RunLines(lines, NthStart(lines, t))
                  IN  /\ out[t].table_index = t - 1
                      /\ out[t].markdown = run_lines
                      /\ out[t].rows = Len(CountedLines(run_lines))
                      /\ out[t].cols = CountCols(CountedLines(run_lines)[1])

\* two runs, the second one at the end of the input, gave two tables
C27_Witness ==
    /\ norm.fn = "parse_tables_from_markdown"
    /\ Len(norm.output.tables) = 2
    /\ HasPipe(norm.input.text[Len(norm.input.text)])

\* a run with a separator line gave a table that keeps it and does not
\* count it
C27_WitnessSeparator ==
    /\ norm.fn = "parse_tables_from_markdown"
    /\ Len(norm.output.tables) = 1
    /\ Len(norm.output.tables[1].markdown) = 3
    /\ norm.output.tables[1].rows = 2
    /\ StartsWithSeparator(norm.output.tables[1].markdown[2])

\* ------------------------------------------------------------------------
\* Table-type classification (enhanced.py)
\* ------------------------------------------------------------------------

\* cells of a header row
MaxHeaderCells == 2

\* the categories in the order of the if / elif chain, with their keywords
TableTypes ==
    << [name |-> "baseline_characteristics",
        keywords |-> {"baseline", "characteristics", "demographics"}],
       [name |-> "outcomes",
        keywords |-> {"outcome", "result", "mortality", "survival"}],
       [name |-> "intervention",
        keywords |-> {"intervention", "treatment", "procedure"}],
       [name |-> "statistical",
        keywords |-> {"statistical", "analysis", "p-value", "ci"}] >>

\* str(cell or ''): the text of a cell, '' for None
CellText(cell) == IF cell = None THEN "" ELSE cell

\* str.lower() on the words a cell may hold
Lower(word) ==
    CASE word = "Baseline" -> "baseline"
      [] word = "OUTCOMES" -> "outcomes"
      [] word = "Treatment" -> "treatment"
      [] word = "Incidence" -> "incidence"
      [] OTHER -> word

\* the keywords that are substrings of a lower-case word
KeywordsWithin(word) ==
    CASE word = "baseline" -> {"baseline"}
      [] word = "outcomes" -> {"outcome"}
      [] word = "treatment" -> {"treatment"}
      [] word = "incidence" -> {"ci"}
      [] OTHER -> {}

\* ' '.join([str(cell or '') for cell in header]).lower(), as the sequence
\* of the joined pieces (no keyword holds a blank, so none spans two cells)
HeaderText(header) == [k \in 1..Len(header) |-> Lower(CellText(header[k]))]

\* any(keyword in header_text for keyword in keywords)
AnyKeyword(keywords, header_text) ==
    \E k \in 1..Len(header_text) : KeywordsWithin(header_text[k]) \cap keywords # {}

\* variant of _detect_table_type: the outcomes keywords are tested first
_detect_table_type_OutcomesFirst(table) ==
    IF table = <<>> \/ Len(table) < 2 THEN "unknown"
    ELSE LET header_text == HeaderText(table[1])
         IN  IF AnyKeyword(TableTypes[2].keywords, header_text) THEN "outcomes"
             ELSE IF AnyKeyword(TableTypes[1].keywords, header_text)
                  THEN "baseline_characteristics"
             ELSE IF AnyKeyword(TableTypes[3].keywords, header_text) THEN "intervention"
             ELSE IF AnyKeyword(TableTypes[4].keywords, header_text) THEN "statistical"
             ELSE "general"

\* _detect_table_type
_detect_table_type(table) ==
    IF table = <<>> \/ Len(table) < 2 THEN "unknown"
    ELSE LET header_text == HeaderText(table[1])
         IN  IF AnyKeyword(TableTypes[1].keywords, header_text)
             THEN "baseline_characteristics"
             ELSE IF AnyKeyword(TableTypes[2].keywords, header_text) THEN "outcomes"
             ELSE IF AnyKeyword(TableTypes[3].keywords, header_text) THEN "intervention"
             ELSE IF AnyKeyword(TableTypes[4].keywords, header_text) THEN "statistical"
             ELSE "general"

\* the words of a cell: mixed and upper case keywords, a keyword inside a
\* longer word, a word without keyword, no text
HeaderCells == {"Baseline", "OUTCOMES", "Treatment", "Incidence", "n", None}

HeaderRows == SeqUpTo(HeaderCells, MaxHeaderCells) \ {<<>>}

\* rows below the header: one without keyword, one with
DataRows == {<<"n">>, <<"Baseline">>}

\* page.extract_tables(): no row, a header alone, a header and a row
TypedTables ==
    {<<>>} \cup {<<h>> : h \in HeaderRows}
    \cup {<<h, r>> : h \in HeaderRows, r \in DataRows}

TypeInputs == [kind : {"type"}, table : TypedTables]

InitType ==
    /\ call = NewCall("tables", None, FALSE)
    /\ norm = NormIdle
    /\ api = ApiIdle
    /\ pair = PairIdle
    /\ \E input \in TypeInputs : run = [RunIdle EXCEPT !.input = input]

DetectType ==
    /\ run.fn = "none"
    /\ run.input.kind = "type"
    /\ run' = [run EXCEPT !.fn = "_detect_table_type",
                          !.output = [raised |-> FALSE,
                                      table_type |-> _detect_table_type(run.input.table)]]
    /\ UNCHANGED <<call, norm, api, pair>>

NextType == DetectType

SpecType == InitType /\ [][NextType]_vars

\* the categories of which a keyword occurs in the header, whatever the case
MatchingTypes(header) ==
    {i \in 1..Len(TableTypes) :
        \E k \in 1..Len(header) :
            KeywordsWithin(Lower(CellText(header[k]))) \cap TableTypes[i].keywords # {}}

\* the earliest of them in the priority order, general when there is none
ExpectedType(header) ==
    IF MatchingTypes(header) = {} THEN "general"
    ELSE TableTypes[CHOOSE i \in MatchingTypes(header) :
                        \A j \in MatchingTypes(header) : i <= j].name

\* the header row of a table, without cells when the table has no row
HeaderOf(table) == IF table = <<>> THEN <<>> ELSE table[1]

C28_WitnessSubstring ==
    /\ run.fn = "_detect_table_type"
    /\ Len(run.input.table) = 2
    /\ run.input.table[1] = <<"Incidence">>
    /\ run.output.table_type = "statistical"

\* ------------------------------------------------------------------------
\* OlmOCRExtractor.extract_tables: one page, or every page of the document
\* ------------------------------------------------------------------------

\* pages of a document
MaxPages == 2

\* what extract_via_api gives for a page: it raises, it returns something
\* that is not text ('<table' in output raises), or it returns a text with
\* or without tables
PageOutcomes ==
    { [kind |-> "api_error", text |-> <<>>],
      [kind |-> "no_text", text |-> <<>>],
      [kind |-> "html", text |-> <<GoodHtmlTable>>],
      [kind |-> "markdown", text |-> << <<"", "a", "a", "">> >>],
      [kind |-> "markdown", text |-> << <<"a">> >>] }

\* the body of the try block for one page: the API call, then the parser
\* chosen by `'<table' in output`; failed when a statement of it raised
PageTables(outcome, page_idx) ==
    IF outcome.kind \in {"api_error", "no_text"} THEN [failed |-> TRUE, tables |-> <<>>]
    ELSE LET r == IF outcome.kind = "html"
                  THEN parse_html_tables(outcome.text, page_idx)
                  ELSE parse_tables_from_markdown(outcome.text, page_idx)
         IN  [failed |-> r.raised, tables |-> r.tables]

\* the argument page_num: None, or a 0-based page index
NoPage == [given |-> FALSE, value |-> 0]

Page(k) == [given |-> TRUE, value |-> k]

\* extract_tables at its entry
NewExtraction(page_num, open_ok, pages) ==
    [fn |-> "extract_tables",
     input |-> [kind |-> "pages", page_num |-> page_num, open_ok |-> open_ok,
                pages |-> pages],
     pc |-> "start",
     total_pages |-> 0,
     page_idx |-> 0,
     visited |-> <<>>,
     all_tables |-> <<>>,
     output |-> [raised |-> FALSE]]

\* lines 388-403: the single page, whose failure is logged and raised again
SinglePageStep(r) ==
    LET p == PageTables(r.input.pages[r.input.page_num.value + 1], r.input.page_num.value)
    IN  IF p.failed
        THEN [r EXCEPT !.visited = Append(@, r.input.page_num.value),
                       !.output.raised = TRUE, !.pc = "raised"]
        ELSE [r EXCEPT !.visited = Append(@, r.input.page_num.value),
                       !.all_tables = @ \o p.tables, !.pc = "returned"]

\* lines 406-408: fitz.open and len(doc), outside every try
OpenStep(r) ==
    IF r.input.open_ok
    THEN [r EXCEPT !.total_pages = Len(r.input.pages), !.pc = "loop"]
    ELSE [r EXCEPT !.output.raised = TRUE, !.pc = "raised"]

\* variant of LoopPageStep: a page that fails ends the loop
LoopPageStep_StopOnFailure(r) ==
    LET p == PageTables(r.input.pages[r.page_idx + 1], r.page_idx)
    IN  IF p.failed
        THEN [r EXCEPT !.visited = Append(@, r.page_idx),
                       !.page_idx = r.total_pages]
        ELSE [r EXCEPT !.visited = Append(@, r.page_idx),
                       !.all_tables = @ \o p.tables,
                       !.page_idx = @ + 1]

\* lines 412-425: one turn of `for page_idx in range(total_pages)`; the
\* except clause logs a warning and the loop goes on
LoopPageStep(r) ==
    LET p == PageTables(r.input.pages[r.page_idx + 1], r.page_idx)
    IN  IF p.failed
        THEN [r EXCEPT !.visited = Append(@, r.page_idx),
                       !.page_idx = @ + 1]
        ELSE [r EXCEPT !.visited = Append(@, r.page_idx),
                       !.all_tables = @ \o p.tables,
                       !.page_idx = @ + 1]

\* lines 427-428: return all_tables
ReturnStep(r) == [r EXCEPT !.pc = "returned"]

Documents == SeqUpTo(PageOutcomes, MaxPages)

InitExtract ==
    /\ call = NewCall("tables", "olmocr", FALSE)
    /\ norm = NormIdle
    /\ api = ApiIdle
    /\ pair = PairIdle
    /\ \E pages \in Documents :
          \/ \E open_ok \in BOOLEAN : run = NewExtraction(NoPage, open_ok, pages)
          \/ \E page_num \in 0..(Len(pages) - 1) :
                run = NewExtraction(Page(page_num), TRUE, pages)

SinglePage ==
    /\ run.pc = "start"
    /\ run.input.page_num.given
    /\ run' = SinglePageStep(run)
    /\ UNCHANGED <<call, norm, api, pair>>

OpenDocument ==
    /\ run.pc = "start"
    /\ ~run.input.page_num.given
    /\ run' = OpenStep(run)
    /\ UNCHANGED <<call, norm, api, pair>>

LoopPage ==
    /\ run.pc = "loop"
    /\ run.page_idx < run.total_pages
    /\ run' = LoopPageStep(run)
    /\ UNCHANGED <<call, norm, api, pair>>

ReturnAll ==
    /\ run.pc = "loop"
    /\ run.page_idx >= run.total_pages
    /\ run' = ReturnStep(run)
    /\ UNCHANGED <<call, norm, api, pair>>

NextExtract == SinglePage \/ OpenDocument \/ LoopPage \/ ReturnAll

SpecExtract == InitExtract /\ [][NextExtract]_vars

\* the page fails: its API call raises or its output cannot be parsed
PageFails(outcome) == outcome.kind \in {"api_error", "no_text"}

RECURSIVE TablesOfPages(_, _)
\* the tables of the pages that succeed, in page order, from page page_idx on
TablesOfPages(pages, page_idx) ==
    IF pages = <<>> THEN <<>>
    ELSE (IF PageFails(Head(pages)) THEN <<>>
          ELSE PageTables(Head(pages), page_idx).tables)
         \o TablesOfPages(Tail(pages), page_idx + 1)

AllPagesMode == run.fn = "extract_tables" /\ ~run.input.page_num.given

SinglePageMode == run.fn = "extract_tables" /\ run.input.page_num.given

\* C29: in all-pages mode the pages are processed one after the other in
\* increasing order; a page whose API call or parsing fails gives no table
\* and does not stop the pages after it: once the document is opened the
\* call never raises and returns the tables of the pages that succeeded, in
\* page order.  In single-page mode only that page is processed and its
\* failure is raised to the caller.
C29_PerPageFailure ==
    /\ AllPagesMode =>
          /\ run.visited = [k \in 1..Len(run.visited) |-> k - 1]
          /\ run.pc = "loop" =>
                /\ Len(run.visited) = run.page_idx
                /\ run.all_tables
                      = TablesOfPages(SubSeq(run.input.pages, 1, run.page_idx), 0)
          /\ run.pc = "raised" => ~run.input.open_ok
          /\ run.pc = "returned" =>
                /\ ~run.output.raised
                /\ Len(run.visited) = Len(run.input.pages)
                /\ run.all_tables = TablesOfPages(run.input.pages, 0)
    /\ SinglePageMode =>
          LET outcome == run.input.pages[run.input.page_num.value + 1]
          IN  /\ run.pc = "raised" =>
                    /\ PageFails(outcome)
                    /\ run.output.raised
                    /\ run.visited = <<run.input.page_num.value>>
              /\ run.pc = "returned" =>
                    /\ ~PageFails(outcome)
                    /\ ~run.output.raised
                    /\ run.visited = <<run.input.page_num.value>>
                    /\ run.all_tables
                          = PageTables(outcome, run.input.page_num.value).tables

\* all pages: the first page failed and the call returned the tables of
\* the second
C29_Witness ==
    /\ AllPagesMode
    /\ run.pc = "returned"
    /\ Len(run.input.pages) = 2
    /\ PageFails(run.input.pages[1])
    /\ run.all_tables # <<>>
    /\ run.all_tables[1].page = 2

\* single page: the failure of the page was raised
C29_WitnessSinglePage ==
    /\ SinglePageMode
    /\ run.pc = "raised"
    /\ run.output.raised

\* the time.sleep calls made so far
ApiSleeps == SelectSeq(api.events, LAMBDA v : v.ev = "sleep")

\* C30: whatever the outcomes of the attempts, extract_via_api with
\* max_retries >= 0 makes at most max_retries + 1 API calls, numbered by one
\* counter, makes no call and no sleep after a successful call, never
\* sleeps after the attempt at the ceiling, and leaves the loop only by
\* returning the output of its first successful call or by raising: the
\* loop is never left with every round used up and nothing returned.
C30_BoundedRetry ==
    api.pc # "idle" =>
        /\ Len(ApiCalls) <= api.max_retries + 1
        /\ \A k \in 1..Len(ApiCalls) : ApiCalls[k].attempt = k - 1
        /\ \A k \in 1..Len(api.events) :
              (api.events[k].ev = "call" /\ api.events[k].ok) => k = Len(api.events)
        /\ \A k \in 1..Len(ApiSleeps) : ApiSleeps[k].attempt < api.max_retries
        /\ api.pc \in {"start", "loop", "returned", "raised"}
        /\ api.pc = "loop" =>
              /\ api.attempt <= api.max_retries
              /\ Len(ApiCalls) = api.attempt
        /\ api.pc = "returned" =>
              /\ api.result.type = "return"
              /\ api.events # <<>>
              /\ api.events[Len(api.events)].ev = "call"
              /\ api.events[Len(api.events)].ok
              /\ \A k \in 1..(Len(ApiCalls) - 1) : ~ApiCalls[k].ok
        /\ api.pc = "raised" =>
              /\ api.result.type = "raise"
              /\ \A k \in 1..Len(ApiCalls) : ~ApiCalls[k].ok

\* a timeout, then an error of no special kind, then a success at the
\* ceiling: three calls, two sleeps, the output returned
C30_Witness ==
    /\ api.pc = "returned"
    /\ api.max_retries = 2
    /\ Len(ApiCalls) = 3
    /\ Len(ApiSleeps) = 2
    /\ IsTimeout(ApiCalls[1].error)
    /\ ApiCalls[2].error = {}
    /\ ApiCalls[3].ok

\* rate-limit errors up to the ceiling: the call raised after the last one
\* without a sleep
C30_WitnessRaise ==
    /\ api.pc = "raised"
    /\ api.max_retries = 2
    /\ Len(ApiCalls) = 3
    /\ Len(ApiSleeps) = 2
    /\ api.events[Len(api.events)].ev = "call"
    /\ IsRateLimit(ApiCalls[3].error)

============================================================================
